---- MODULE Spec2Model ----
(***************************************************************************)
(* PNG-to-NBT: a 128x128 map-art image is classified against the map       *)
(* palette, turned into a list of voxel placements by one of several       *)
(* builders, given support filler, normalised and packed.                  *)
(*                                                                         *)
(* Conventions of this model                                               *)
(*  - A string is the sequence of its atoms: each of the characters        *)
(*    "[", "]", ",", "=", " " and ":" is an atom, the prefix "minecraft:"  *)
(*    is one atom, and every other maximal run of characters is one atom,  *)
(*    split so that "leaves" is always an atom of its own.  "" is << >>.   *)
(*  - An image is [width, height, bg, px]: px maps the linear pixel index  *)
(*    z*128+x of a few pixels to their RGBA value, every other pixel of    *)
(*    the image holds bg.                                                  *)
(*  - Error messages are records holding what the message text shows.      *)
(***************************************************************************)
EXTENDS Integers, Sequences, FiniteSets, TLC

VARIABLES
    customColors,        \* page: the custom (r,g,b)->block list
    convertUnsupported,  \* page: the "convert to nearest colour" switch
    presetBlocks,        \* page: preset.blocks, palette index -> block string
    fillerBlock,         \* page: filler block string
    buildMode,           \* page: selected build mode
    supportMode,         \* page: selected support mode
    imageData,           \* page: the loaded image, or NoImage
    imageValid,          \* page: generation may use the image
    paletteErrors,       \* page: the messages shown under the drop zone
    pending,             \* handleFile: image load in flight (closure of img.onload)
    validation,          \* the ValidationResult validatePng returned last
    placed,              \* the placement lists convertToNbt built last
    download,            \* the result convertToNbt returned last
    query                \* palette table: the (baseIndex, shade) looked up last

vars == << customColors, convertUnsupported, presetBlocks, fillerBlock, buildMode,
           supportMode, imageData, imageValid, paletteErrors, pending, validation,
           placed, download, query >>

None == [none |-> TRUE]
NoImage == [noImage |-> TRUE]

(***************************************************************************)
(* Generic helpers                                                         *)
(***************************************************************************)
Min(S) == CHOOSE m \in S : \A o \in S : m <= o
Max(S) == CHOOSE m \in S : \A o \in S : m >= o

RECURSIVE SortedSeq(_)
SortedSeq(S) == IF S = {} THEN << >> ELSE << Min(S) >> \o SortedSeq(S \ {Min(S)})

\* The sequence with the elements of f, a function on 1..n.
AsList(f) == f \o << >>

Contains(seq, e) == \E i \in 1..Len(seq) : seq[i] = e
Take(seq, n) == SubSeq(seq, 1, IF Len(seq) < n THEN Len(seq) ELSE n)

(***************************************************************************)
(* Palette table                                                           *)
(***************************************************************************)
SHADE_MULTIPLIERS == << 180, 220, 255, 135 >>   \* 0=dark, 1=flat, 2=light, 3=darkest

\* BASE_COLORS[i].r/g/b, i = 0..61 (entry i is element i+1)
BASE_COLORS_RGB ==
    << <<0, 0, 0>>, <<127, 178, 56>>, <<247, 233, 163>>, <<199, 199, 199>>,
       <<255, 0, 0>>, <<160, 160, 255>>, <<167, 167, 167>>, <<0, 124, 0>>,
       <<255, 255, 255>>, <<164, 168, 184>>, <<151, 109, 77>>, <<112, 112, 112>>,
       <<64, 64, 255>>, <<143, 119, 72>>, <<255, 252, 245>>, <<216, 127, 51>>,
       <<178, 76, 216>>, <<102, 153, 216>>, <<229, 229, 51>>, <<127, 204, 25>>,
       <<242, 127, 165>>, <<76, 76, 76>>, <<153, 153, 153>>, <<76, 127, 153>>,
       <<127, 63, 178>>, <<51, 76, 178>>, <<102, 76, 51>>, <<102, 127, 51>>,
       <<153, 51, 51>>, <<25, 25, 25>>, <<250, 238, 77>>, <<92, 219, 213>>,
       <<74, 128, 255>>, <<0, 217, 58>>, <<129, 86, 49>>, <<112, 2, 0>>,
       <<209, 177, 161>>, <<159, 82, 36>>, <<149, 87, 108>>, <<112, 108, 138>>,
       <<186, 133, 36>>, <<103, 117, 53>>, <<160, 77, 78>>, <<57, 41, 35>>,
       <<135, 107, 98>>, <<87, 92, 92>>, <<122, 73, 88>>, <<76, 62, 92>>,
       <<76, 50, 35>>, <<76, 82, 42>>, <<142, 60, 46>>, <<37, 22, 16>>,
       <<189, 48, 49>>, <<148, 63, 97>>, <<92, 25, 29>>, <<22, 126, 134>>,
       <<58, 142, 140>>, <<86, 44, 62>>, <<20, 180, 133>>, <<100, 100, 100>>,
       <<216, 175, 147>>, <<127, 167, 150>> >>

\* BASE_COLORS[i].blocks[0]
BASE_COLORS_FIRST_BLOCK ==
    << <<"glass">>, <<"grass_block">>, <<"sand">>,
       <<"mushroom_stem">>, <<"tnt">>, <<"ice">>,
       <<"iron_block">>, <<"oak_", "leaves">>, <<"white_wool">>,
       <<"clay">>, <<"dirt">>, <<"cobblestone">>,
       <<"water">>, <<"oak_planks">>, <<"quartz_block">>,
       <<"acacia_planks">>, <<"magenta_wool">>, <<"light_blue_wool">>,
       <<"yellow_wool">>, <<"lime_wool">>, <<"pink_wool">>,
       <<"gray_wool">>, <<"light_gray_wool">>, <<"cyan_wool">>,
       <<"purple_wool">>, <<"blue_wool">>, <<"dark_oak_planks">>,
       <<"green_wool">>, <<"red_wool">>, <<"black_wool">>,
       <<"gold_block">>, <<"diamond_block">>, <<"lapis_block">>,
       <<"emerald_block">>, <<"podzol">>, <<"netherrack">>,
       <<"white_terracotta">>, <<"orange_terracotta">>, <<"magenta_terracotta">>,
       <<"light_blue_terracotta">>, <<"yellow_terracotta">>, <<"lime_terracotta">>,
       <<"pink_terracotta">>, <<"gray_terracotta">>, <<"light_gray_terracotta">>,
       <<"cyan_terracotta">>, <<"purple_terracotta">>, <<"blue_terracotta">>,
       <<"brown_terracotta">>, <<"green_terracotta">>, <<"red_terracotta">>,
       <<"black_terracotta">>, <<"crimson_nylium">>, <<"crimson_planks">>,
       <<"crimson_hyphae">>, <<"warped_nylium">>, <<"warped_planks">>,
       <<"warped_hyphae">>, <<"warped_wart_block">>, <<"deepslate">>,
       <<"raw_iron_block">>, <<"glow_lichen", "[", "south", "=", "true", "]">> >>

BASE_COLORS_isWater(i) == i = 12
BaseIndices == 0..(Len(BASE_COLORS_RGB) - 1)
Shades == 0..3

NoMatch == [baseIndex |-> -1, shade |-> -1]      \* lookup.get(key) === undefined
IsMatch(m) == m.baseIndex >= 0

ShadeChannel(c, m) == (c * m) \div 255           \* Math.floor(c * m / 255)

\* mutant: rounds to nearest instead of flooring
getShadedRgbMutRound(baseIndex, shade) ==
    LET c == BASE_COLORS_RGB[baseIndex + 1]
        m == SHADE_MULTIPLIERS[shade + 1]
    IN  << (2 * c[1] * m + 255) \div 510, (2 * c[2] * m + 255) \div 510,
           (2 * c[3] * m + 255) \div 510 >>

getShadedRgb(baseIndex, shade) ==
    LET c == BASE_COLORS_RGB[baseIndex + 1]
        m == SHADE_MULTIPLIERS[shade + 1]
    IN  << ShadeChannel(c[1], m), ShadeChannel(c[2], m), ShadeChannel(c[3], m) >>

\* The set() calls of getColorLookup in the order they are made: i = 1..61, s = 0..3.
LookupFirstIndex == 1
LookupWrites ==
    LET n == (Len(BASE_COLORS_RGB) - LookupFirstIndex) * 4
    IN  [k \in 1..n |->
            LET i == LookupFirstIndex + ((k - 1) \div 4)
                s == (k - 1) % 4
                c == BASE_COLORS_RGB[i + 1]
                m == SHADE_MULTIPLIERS[s + 1]
            IN  [key |-> << ShadeChannel(c[1], m), ShadeChannel(c[2], m),
                            ShadeChannel(c[3], m) >>,
                 baseIndex |-> i, shade |-> s]]

\* The Map it returns: a later set() of a key replaces the value of an earlier one.
getColorLookup ==
    [key \in {LookupWrites[k].key : k \in DOMAIN LookupWrites} |->
        LET last == Max({k \in DOMAIN LookupWrites : LookupWrites[k].key = key})
        IN  [baseIndex |-> LookupWrites[last].baseIndex,
             shade |-> LookupWrites[last].shade]]

LookupGet(key) == IF key \in DOMAIN getColorLookup THEN getColorLookup[key] ELSE NoMatch

\* lookup.entries(): the keys in the order of their first insertion.
LookupKeys ==
    LET keep == {k \in DOMAIN LookupWrites :
                    \A j \in 1..(k - 1) : LookupWrites[j].key # LookupWrites[k].key}
        nth(n) == CHOOSE k \in keep : Cardinality({j \in keep : j < k}) = n - 1
    IN  AsList([n \in 1..Cardinality(keep) |-> LookupWrites[nth(n)].key])

(***************************************************************************)
(* Images and custom colours                                               *)
(***************************************************************************)
MapSize == 128

Transparent == [r |-> 0, g |-> 0, b |-> 0, a |-> 0]
Rgb(r, g, b) == [r |-> r, g |-> g, b |-> b, a |-> 255]
KeyOf(p) == << p.r, p.g, p.b >>                  \* `${r},${g},${b}`

\* imageData.data at pixel index idx, (idx*4 .. idx*4+3)
PixelAtIndex(img, idx) == IF idx \in DOMAIN img.px THEN img.px[idx] ELSE img.bg
PixelAt(img, x, z) == PixelAtIndex(img, z * MapSize + x)

\* The pixel values an image holds.
PixelValues(img) == {img.px[i] : i \in DOMAIN img.px} \cup {img.bg}

\* Pixel indices in scan order, one for every listed pixel and one (the first)
\* for the pixels that hold bg: visiting a second pixel of a value already
\* visited changes nothing in any of the whole-image scans modelled here.
ScanOrder(img) ==
    LET D == DOMAIN img.px
        firstBg == Min({i \in 0..Cardinality(D) : i \notin D})
    IN  SortedSeq(D \cup {firstBg})

\* new Map over customColors: the last entry of a key wins.
NoCustom == [r |-> -1, g |-> -1, b |-> -1, block |-> << >>]
IsCustom(c) == c.r >= 0
CustomGet(cc, key) ==
    LET hits == {i \in 1..Len(cc) : << cc[i].r, cc[i].g, cc[i].b >> = key}
    IN  IF hits = {} THEN NoCustom ELSE cc[Max(hits)]
CustomHas(cc, key) == \E i \in 1..Len(cc) : << cc[i].r, cc[i].g, cc[i].b >> = key

(***************************************************************************)
(* validatePng                                                             *)
(***************************************************************************)
MaxShownColors == 10
CustomMarker == -1

SizeError(w, h) == [kind |-> "size", width |-> w, height |-> h]
\* mutant: reports the number of colours shown instead of the total
PaletteErrorMutShownCount(invalidColors) ==
    [kind |-> "palette",
     count |-> Len(Take(invalidColors, MaxShownColors)),
     plural |-> Len(invalidColors) # 1,
     shown |-> Take(invalidColors, MaxShownColors),
     ellipsis |-> Len(invalidColors) > MaxShownColors]

PaletteError(invalidColors) ==
    [kind |-> "palette",
     count |-> Len(invalidColors),
     plural |-> Len(invalidColors) # 1,
     shown |-> Take(invalidColors, MaxShownColors),
     ellipsis |-> Len(invalidColors) > MaxShownColors]

\* mutant: records the shade of a palette match instead of its base index
ValidatePixelMutShade(acc, p, cc) ==
    IF p.a = 0 THEN acc
    ELSE LET key == KeyOf(p)
             match == LookupGet(key)
         IN  IF IsMatch(match)
                THEN [acc EXCEPT !.used = @ \cup {match.shade}]
             ELSE IF CustomHas(cc, key)
                THEN [acc EXCEPT !.used = @ \cup {CustomMarker}]
             ELSE IF Contains(acc.invalid, key) THEN acc
             ELSE [acc EXCEPT !.invalid = Append(@, key)]

\* One iteration of the pixel loop on the accumulator [used, invalid].
ValidatePixel(acc, p, cc) ==
    IF p.a = 0 THEN acc
    ELSE LET key == KeyOf(p)
             match == LookupGet(key)
         IN  IF IsMatch(match)
                THEN [acc EXCEPT !.used = @ \cup {match.baseIndex}]
             ELSE IF CustomHas(cc, key)
                THEN [acc EXCEPT !.used = @ \cup {CustomMarker}]
             ELSE IF Contains(acc.invalid, key) THEN acc
             ELSE [acc EXCEPT !.invalid = Append(@, key)]

RECURSIVE ValidateScan(_, _, _, _, _)
ValidateScan(img, order, n, acc, cc) ==
    IF n > Len(order) THEN acc
    ELSE ValidateScan(img, order, n + 1,
                      ValidatePixel(acc, PixelAtIndex(img, order[n]), cc), cc)

\* mutant: checks the width only
validatePngMutWidthOnly(img, cc) ==
    IF img.width # MapSize
    THEN [valid |-> FALSE, errors |-> << SizeError(img.width, img.height) >>,
          usedBaseColors |-> {}]
    ELSE LET acc == ValidateScan(img, ScanOrder(img), 1,
                                 [used |-> {}, invalid |-> << >>], cc)
             errors == IF Len(acc.invalid) > 0
                       THEN << PaletteError(acc.invalid) >> ELSE << >>
         IN  [valid |-> Len(errors) = 0, errors |-> errors,
              usedBaseColors |-> acc.used]

validatePng(img, cc) ==
    IF img.width # MapSize \/ img.height # MapSize
    THEN [valid |-> FALSE, errors |-> << SizeError(img.width, img.height) >>,
          usedBaseColors |-> {}]
    ELSE LET acc == ValidateScan(img, ScanOrder(img), 1,
                                 [used |-> {}, invalid |-> << >>], cc)
             errors == IF Len(acc.invalid) > 0
                       THEN << PaletteError(acc.invalid) >> ELSE << >>
         IN  [valid |-> Len(errors) = 0, errors |-> errors,
              usedBaseColors |-> acc.used]

(***************************************************************************)
(* Block strings                                                           *)
(***************************************************************************)
IndexOf(str, atom) ==             \* 1-based position of the first atom, 0 if absent
    IF Contains(str, atom) THEN Min({i \in 1..Len(str) : str[i] = atom}) ELSE 0

RECURSIVE Trim(_)
Trim(str) ==
    IF str = << >> THEN str
    ELSE IF Head(str) = " " THEN Trim(Tail(str))
    ELSE IF str[Len(str)] = " " THEN Trim(SubSeq(str, 1, Len(str) - 1))
    ELSE str

\* toLowerCase on the word atoms the model uses
LowerAtom(a) ==
    CASE a \in {"AIR", "Air"} -> "air"
      [] a \in {"NONE", "None"} -> "none"
      [] OTHER -> a
ToLowerCase(str) == [i \in 1..Len(str) |-> LowerAtom(str[i])]

RECURSIVE SplitOn(_, _)
SplitOn(str, sep) ==              \* str.split(sep): a sequence of strings
    IF ~Contains(str, sep) THEN << str >>
    ELSE LET i == IndexOf(str, sep)
         IN  << SubSeq(str, 1, i - 1) >> \o SplitOn(SubSeq(str, i + 1, Len(str)), sep)

RECURSIVE Join(_, _)
Join(strs, sep) ==
    IF strs = << >> THEN << >>
    ELSE IF Len(strs) = 1 THEN strs[1]
    ELSE strs[1] \o sep \o Join(Tail(strs), sep)

\* props[key] = value on an object kept as the sequence of its [key, value]
\* entries in insertion order: a key already present keeps its place.
PropSet(props, key, value) ==
    IF \E i \in 1..Len(props) : props[i].key = key
    THEN [i \in 1..Len(props) |->
            IF props[i].key = key THEN [key |-> key, value |-> value] ELSE props[i]]
    ELSE Append(props, [key |-> key, value |-> value])

RECURSIVE ParseProps(_, _)
ParseProps(parts, props) ==       \* the loop over propsStr.split(",")
    IF parts = << >> THEN props
    ELSE LET part == Head(parts)
             eq == IndexOf(part, "=")
         IN  ParseProps(Tail(parts),
                IF eq >= 1
                THEN PropSet(props, Trim(SubSeq(part, 1, eq - 1)),
                             Trim(SubSeq(part, eq + 1, Len(part))))
                ELSE props)

\* str.slice(bracketIdx + 1, -1): the atoms after "[" without the last one
\* (the strings of the model that hold "[" end with the atom "]")
InsideBrackets(str, bracketIdx) == SubSeq(str, bracketIdx + 1, Len(str) - 1)

isFillerDisabled(filler) ==
    LET lower == ToLowerCase(Trim(filler))
    IN  lower = << "air" >> \/ lower = << "none" >>

resolveBlockName(block) ==
    LET bracketIdx == IndexOf(block, "[")
        name == IF bracketIdx >= 1 THEN SubSeq(block, 1, bracketIdx - 1) ELSE block
        parsed == IF bracketIdx >= 1
                  THEN ParseProps(SplitOn(InsideBrackets(block, bracketIdx), ","), << >>)
                  ELSE << >>
        props == IF Contains(name, "leaves")
                 THEN PropSet(parsed, << "persistent" >>, << "true" >>)
                 ELSE parsed
        fullName == << "minecraft:" >> \o name
    IN  IF Len(props) > 0
        THEN fullName \o << "[" >>
             \o Join([i \in 1..Len(props) |-> props[i].key \o << "=" >> \o props[i].value],
                     << "," >>)
             \o << "]" >>
        ELSE fullName

isWaterBlock(blockName) ==
    \/ blockName = << "minecraft:", "water" >>
    \/ \E i \in 1..(Len(blockName) - 2) :
          /\ blockName[i] = "waterlogged" /\ blockName[i + 1] = "=" /\ blockName[i + 2] = "true"

\* mutant: the parity of the row alone decides the depth
getWaterDepthMutRowParity(shade, x, z) ==
    IF shade = 2 THEN 1
    ELSE LET even == z % 2 = 0
         IN  IF shade = 1 THEN (IF even THEN 5 ELSE 3)
             ELSE (IF even THEN 10 ELSE 7)

\* Water depth with checkerboard optimization
getWaterDepth(shade, x, z) ==
    IF shade = 2 THEN 1
    ELSE LET even == (x + z) % 2 = 0
         IN  IF shade = 1 THEN (IF even THEN 5 ELSE 3)
             ELSE (IF even THEN 10 ELSE 7)

Block(x, y, z, blockName) == [x |-> x, y |-> y, z |-> z, blockName |-> blockName]
addBlock(blocks, x, y, z, block) == Append(blocks, Block(x, y, z, resolveBlockName(block)))

(***************************************************************************)
(* buildStaircaseBlocks                                                    *)
(***************************************************************************)
BASE_Y == 64

\* options.blockMapping[baseIndex] || baseColor.blocks[0]
MappedBlock(opt, baseIndex) ==
    IF baseIndex \in DOMAIN opt.blockMapping /\ opt.blockMapping[baseIndex] # << >>
    THEN opt.blockMapping[baseIndex]
    ELSE BASE_COLORS_FIRST_BLOCK[baseIndex + 1]

\* The columns and rows that can hold an opaque pixel.  A loop over the grid
\* visits these only: a transparent pixel makes the suppress builders do
\* nothing, and makes the staircase builder reset the column state, which a
\* second transparent pixel below it leaves as it is.
ActiveCols(img) ==
    IF img.bg.a # 0 THEN 0..(MapSize - 1) ELSE {idx % MapSize : idx \in DOMAIN img.px}
ActiveRows(img) ==
    IF img.bg.a # 0 THEN 0..(MapSize - 1) ELSE {idx \div MapSize : idx \in DOMAIN img.px}
StairRowsVisited(img) ==
    ActiveRows(img) \cup {z + 1 : z \in {r \in ActiveRows(img) : r + 1 < MapSize}}

ColState(y, transparent) ==
    [y |-> y, transparent |-> transparent, water |-> FALSE, waterBottom |-> 0,
     waterDepth |-> 0]
WaterColState(top, bottom, depth) ==
    [y |-> top, transparent |-> FALSE, water |-> TRUE, waterBottom |-> bottom,
     waterDepth |-> depth]

RECURSIVE AddWaterStack(_, _, _, _, _, _, _)
AddWaterStack(blocks, x, bottom, z, block, d, depth) ==     \* for d < depth: addBlock
    IF d >= depth THEN blocks
    ELSE AddWaterStack(addBlock(blocks, x, bottom + d, z, block), x, bottom, z, block,
                       d + 1, depth)

\* mutant: the north filler goes one level lower
FillerNorthMutBelow(blocks, opt, northTransparent, x, y, z) ==
    IF northTransparent /\ ~isFillerDisabled(opt.fillerBlock)
    THEN addBlock(blocks, x, y - 1, z - 1, opt.fillerBlock)
    ELSE blocks

FillerNorth(blocks, opt, northTransparent, x, y, z) ==
    IF northTransparent /\ ~isFillerDisabled(opt.fillerBlock)
    THEN addBlock(blocks, x, y, z - 1, opt.fillerBlock)
    ELSE blocks

\* A pixel that places nothing: currRow[x] = { y: northY, transparent: true }
StairSkip(blocks, northState) ==
    [blocks |-> blocks, col |-> ColState(northState.y, TRUE)]

\* A pixel of a custom colour, or a flat pixel: one block at the north.y level.
StairLevel(opt, blocks, northState, x, z, block) ==
    [blocks |-> addBlock(FillerNorth(blocks, opt, northState.transparent, x,
                                     northState.y, z),
                         x, northState.y, z, block),
     col |-> ColState(northState.y, FALSE)]

StairWater(blocks, northState, x, z, block, depth) ==
    LET bottom == IF northState.water THEN northState.waterBottom ELSE northState.y
    IN  [blocks |-> AddWaterStack(blocks, x, bottom, z, block, 0, depth),
         col |-> WaterColState(bottom + depth - 1, bottom, depth)]

\* A dark pixel: darkY is the level of the block, fillerY that of its filler.
StairDark(opt, blocks, northState, x, z, block, darkY, fillerY) ==
    [blocks |-> addBlock(FillerNorth(blocks, opt, northState.transparent, x, fillerY, z),
                         x, darkY, z, block),
     col |-> ColState(darkY, FALSE)]

\* mutant: a dark pixel south of deep liquid steps below the liquid's bottom
StairPaletteMutDarkBelowLiquid(opt, blocks, northState, x, z, baseIndex, shade, block) ==
    IF block = << >> THEN StairSkip(blocks, northState)
    ELSE IF BASE_COLORS_isWater(baseIndex)
    THEN StairWater(blocks, northState, x, z, block, getWaterDepth(shade, x, z))
    ELSE IF shade = 1 THEN StairLevel(opt, blocks, northState, x, z, block)
    ELSE IF shade = 2
    THEN [blocks |-> addBlock(blocks, x, northState.y + 1, z, block),
          col |-> ColState(northState.y + 1, FALSE)]
    ELSE IF northState.water
    THEN StairDark(opt, blocks, northState, x, z, block, northState.waterBottom - 1,
                   northState.waterBottom)
    ELSE StairDark(opt, blocks, northState, x, z, block, northState.y - 1, northState.y)

\* A pixel of a palette colour, block being its mapped block.
StairPalette(opt, blocks, northState, x, z, baseIndex, shade, block) ==
    IF block = << >> THEN StairSkip(blocks, northState)
    ELSE IF BASE_COLORS_isWater(baseIndex)
    THEN StairWater(blocks, northState, x, z, block, getWaterDepth(shade, x, z))
    ELSE IF shade = 1 THEN StairLevel(opt, blocks, northState, x, z, block)
    ELSE IF shade = 2
    THEN [blocks |-> addBlock(blocks, x, northState.y + 1, z, block),
          col |-> ColState(northState.y + 1, FALSE)]
    ELSE IF northState.water /\ northState.waterDepth > 1
    THEN StairDark(opt, blocks, northState, x, z, block, northState.waterBottom,
                   northState.waterBottom + 1)
    ELSE IF northState.water
    THEN StairDark(opt, blocks, northState, x, z, block, northState.waterBottom - 1,
                   northState.waterBottom)
    ELSE StairDark(opt, blocks, northState, x, z, block, northState.y - 1, northState.y)

\* mutant: a pixel that matches neither table gets the filler block
StairOpaqueMutPlacesUnmatched(opt, blocks, northState, x, z, match, customMatch) ==
    IF ~IsMatch(match) /\ ~IsCustom(customMatch)
    THEN [blocks |-> addBlock(blocks, x, northState.y, z, opt.fillerBlock),
          col |-> ColState(northState.y, TRUE)]
    ELSE IF IsCustom(customMatch)
    THEN StairLevel(opt, blocks, northState, x, z, customMatch.block)
    ELSE StairPalette(opt, blocks, northState, x, z, match.baseIndex, match.shade,
                      MappedBlock(opt, match.baseIndex))

\* An opaque pixel: the custom table is consulted before the palette match.
StairOpaque(opt, blocks, northState, x, z, match, customMatch) ==
    IF ~IsMatch(match) /\ ~IsCustom(customMatch) THEN StairSkip(blocks, northState)
    ELSE IF IsCustom(customMatch)
    THEN StairLevel(opt, blocks, northState, x, z, customMatch.block)
    ELSE StairPalette(opt, blocks, northState, x, z, match.baseIndex, match.shade,
                      MappedBlock(opt, match.baseIndex))

\* The body of the x loop for the pixel p: [blocks, col], col being currRow[x].
StairPixel(p, opt, blocks, northState, x, z) ==
    IF p.a = 0 THEN StairSkip(blocks, northState)
    ELSE StairOpaque(opt, blocks, northState, x, z, LookupGet(KeyOf(p)),
                     CustomGet(opt.customColors, KeyOf(p)))

\* acc is [blocks, row]: the list so far and currRow.
StairPut(acc, x, r) == [blocks |-> r.blocks, row |-> [acc.row EXCEPT ![x] = r.col]]

RECURSIVE StairRow(_, _, _, _, _, _, _)
StairRow(img, opt, cols, n, z, prevRow, acc) ==
    IF n > Len(cols) THEN acc
    ELSE StairRow(img, opt, cols, n + 1, z, prevRow,
                  StairPut(acc, cols[n],
                           StairPixel(PixelAt(img, cols[n], z), opt, acc.blocks,
                                      prevRow[cols[n]], cols[n], z)))

\* acc is [blocks, row]: the list so far and prevRow.
RECURSIVE StairRows(_, _, _, _, _, _)
StairRows(img, opt, cols, rows, k, acc) ==
    \* nothing is left to place after the last row, or without any column
    IF k > Len(rows) \/ DOMAIN acc.row = {} THEN acc.blocks
    ELSE StairRows(img, opt, cols, rows, k + 1,
                   StairRow(img, opt, cols, 1, rows[k], acc.row, acc))

buildStaircaseBlocks(img, opt) ==
    StairRows(img, opt, SortedSeq(ActiveCols(img)), SortedSeq(StairRowsVisited(img)), 1,
              [blocks |-> << >>, row |-> [x \in ActiveCols(img) |-> ColState(BASE_Y, TRUE)]])

(***************************************************************************)
(* applyStaircaseVariant                                                   *)
(***************************************************************************)
\* Keys of the columns Map in insertion order.
ColumnOrder(blocks) ==
    LET firsts == {i \in 1..Len(blocks) :
                      \A j \in 1..(i - 1) : blocks[j].x # blocks[i].x}
        order == SortedSeq(firsts)
    IN  AsList([n \in 1..Len(order) |-> blocks[order[n]].x])

ColumnIdx(blocks, x) == {i \in 1..Len(blocks) : blocks[i].x = x}
RowYs(blocks, x, z) == {blocks[i].y : i \in {j \in ColumnIdx(blocks, x) : blocks[j].z = z}}

\* b.y += delta for every block of column x whose z is in zs
ShiftRows(blocks, x, zs, delta) ==
    [i \in 1..Len(blocks) |->
        IF blocks[i].x = x /\ blocks[i].z \in zs
        THEN [blocks[i] EXCEPT !.y = @ + delta]
        ELSE blocks[i]]

\* mutant: leaves the column where the staircase builder put it
ClassicColumnMutNoShift(blocks, x) == blocks

\* mutant: the lowest voxel of the whole list is the floor of every column
ClassicColumnMutSharedFloor(blocks, x) ==
    LET minY == Min({blocks[i].y : i \in 1..Len(blocks)})
    IN  [i \in 1..Len(blocks) |->
            IF blocks[i].x = x THEN [blocks[i] EXCEPT !.y = @ - minY] ELSE blocks[i]]

ClassicColumn(blocks, x) ==
    LET minY == Min({blocks[i].y : i \in ColumnIdx(blocks, x)})
    IN  [i \in 1..Len(blocks) |->
            IF blocks[i].x = x THEN [blocks[i] EXCEPT !.y = @ - minY] ELSE blocks[i]]

\* southY is the y of the first block in list order that has the largest z
SouthlineColumn(blocks, x) ==
    LET idx == ColumnIdx(blocks, x)
        maxZ == Max({blocks[i].z : i \in idx})
        southY == blocks[Min({i \in idx : blocks[i].z = maxZ})].y
    IN  [i \in 1..Len(blocks) |->
            IF blocks[i].x = x THEN [blocks[i] EXCEPT !.y = @ - southY] ELSE blocks[i]]

NoShade == [has |-> FALSE, shade |-> -1, isWater |-> FALSE]
ShadeInfo(shade, isWater) == [has |-> TRUE, shade |-> shade, isWater |-> isWater]

\* What the valley and cancer passes record of an opaque pixel: the palette
\* match is consulted before the custom table.
PassInfo(match, isCustom) ==
    IF IsMatch(match) THEN ShadeInfo(match.shade, BASE_COLORS_isWater(match.baseIndex))
    ELSE IF isCustom THEN ShadeInfo(1, FALSE)
    ELSE NoShade

PassInfoOf(p, cc) ==
    IF p.a = 0 THEN NoShade ELSE PassInfo(LookupGet(KeyOf(p)), CustomHas(cc, KeyOf(p)))

\* pixelShade.get(z) of the valley pass for column x
pixelShade(img, cc, x, z) ==
    IF z < 0 \/ z >= MapSize THEN NoShade ELSE PassInfoOf(PixelAt(img, x, z), cc)

Segment(zList, topY, hasWater, waterDepth) ==
    [zList |-> zList, topY |-> topY, hasWater |-> hasWater, waterDepth |-> waterDepth]

\* The while loop that cuts nonWaterPrimary into runs; i and j are 1-based.
RECURSIVE RunEnd(_, _, _, _)
RunEnd(nonWaterPrimary, origMaxY, y, j) ==
    IF j <= Len(nonWaterPrimary)
       /\ nonWaterPrimary[j] = nonWaterPrimary[j - 1] + 1
       /\ origMaxY[nonWaterPrimary[j]] = y
    THEN RunEnd(nonWaterPrimary, origMaxY, y, j + 1)
    ELSE j

\* The segment of the run zList of level y: a water row right north of it at
\* the same level joins it.
RunSegment(zList, y, waterZ, origMaxY, origMinY) ==
    IF (zList[1] - 1) \in waterZ /\ origMaxY[zList[1] - 1] = y
    THEN Segment(<< zList[1] - 1 >> \o zList, y, TRUE,
                 origMaxY[zList[1] - 1] - origMinY[zList[1] - 1] + 1)
    ELSE Segment(zList, y, FALSE, 0)

RECURSIVE RunSegments(_, _, _, _, _, _)
RunSegmentsFrom(nonWaterPrimary, waterZ, origMaxY, origMinY, i, segments, j) ==
    RunSegments(nonWaterPrimary, waterZ, origMaxY, origMinY, j,
                Append(segments,
                       RunSegment(SubSeq(nonWaterPrimary, i, j - 1),
                                  origMaxY[nonWaterPrimary[i]], waterZ, origMaxY, origMinY)))

RunSegments(nonWaterPrimary, waterZ, origMaxY, origMinY, i, segments) ==
    IF i > Len(nonWaterPrimary) THEN segments
    ELSE RunSegmentsFrom(nonWaterPrimary, waterZ, origMaxY, origMinY, i, segments,
                         RunEnd(nonWaterPrimary, origMaxY, origMaxY[nonWaterPrimary[i]],
                                i + 1))

\* segments.sort((a, b) => a.topY - b.topY): a stable sort
RECURSIVE SortSegments(_)
SortSegments(segments) ==
    IF segments = << >> THEN << >>
    ELSE LET lowest == Min({segments[i].topY : i \in 1..Len(segments)})
             first == Min({i \in 1..Len(segments) : segments[i].topY = lowest})
         IN  << segments[first] >>
             \o SortSegments(SubSeq(segments, 1, first - 1)
                             \o SubSeq(segments, first + 1, Len(segments)))

SeqToSet(seq) == {seq[i] : i \in 1..Len(seq)}

\* Moves a segment: the blocks of its rows, currentMaxY and deltaApplied.
MoveSegment(st, x, seg, delta) ==
    LET zs == SeqToSet(seg.zList)
    IN  [blocks |-> AsList(ShiftRows(st.blocks, x, zs, delta)),
         currentMaxY |-> [z \in DOMAIN st.currentMaxY |->
                            IF z \in zs THEN st.currentMaxY[z] + delta
                            ELSE st.currentMaxY[z]],
         deltaApplied |-> [z \in DOMAIN st.deltaApplied |->
                            IF z \in zs THEN st.deltaApplied[z] + delta
                            ELSE st.deltaApplied[z]]]

RECURSIVE SegmentFillers(_, _, _, _, _, _)
SegmentFillers(blocks, x, southY, zList, n, filler) ==
    IF n > Len(zList) THEN blocks
    ELSE SegmentFillers(Append(blocks, Block(x, southY, zList[n], resolveBlockName(filler))),
                        x, southY, zList, n + 1, filler)

\* mutant: a segment with nothing to stand on in the south targets level 1
SouthTargetMutLevelOne(st, southZ, southInfo) ==
    IF ~southInfo.has \/ southInfo.isWater \/ southInfo.shade = 2 THEN 1
    ELSE IF southZ \in DOMAIN st.currentMaxY THEN st.currentMaxY[southZ] + 1 ELSE 1

\* targetTopY as the south neighbour sets it
SouthTarget(st, southZ, southInfo) ==
    IF ~southInfo.has \/ southInfo.isWater \/ southInfo.shade = 2 THEN 0
    ELSE IF southZ \in DOMAIN st.currentMaxY THEN st.currentMaxY[southZ] + 1 ELSE 0

\* mutant: a light segment is not raised above the row north of it
NorthTargetAtMutFlatOnly(st, zList, northOfSegZ, segInfo, target) ==
    IF segInfo.has /\ northOfSegZ \notin SeqToSet(zList)
       /\ northOfSegZ \in DOMAIN st.currentMaxY
    THEN IF segInfo.shade = 1 THEN Max({target, st.currentMaxY[northOfSegZ]})
         ELSE target
    ELSE target

\* targetTopY raised by the row north of the segment's first non-water row
NorthTargetAt(st, zList, northOfSegZ, segInfo, target) ==
    IF segInfo.has /\ northOfSegZ \notin SeqToSet(zList)
       /\ northOfSegZ \in DOMAIN st.currentMaxY
    THEN IF segInfo.shade = 2 THEN Max({target, st.currentMaxY[northOfSegZ] + 1})
         ELSE IF segInfo.shade = 1 THEN Max({target, st.currentMaxY[northOfSegZ]})
         ELSE target
    ELSE target

NorthTargetFrom(st, img, cc, x, zList, firstNonWaterZ, target) ==
    NorthTargetAt(st, zList, firstNonWaterZ - 1, pixelShade(img, cc, x, firstNonWaterZ),
                  target)

NorthTarget(st, img, cc, x, zList, nonWater, target) ==
    IF nonWater = {} THEN target
    ELSE NorthTargetFrom(st, img, cc, x, zList, zList[Min(nonWater)], target)

\* mutant: the water pillar is not kept above the floor
WaterTargetMutNoFloor(seg, target) == target

\* targetTopY raised so that the bottom of the water pillar is not below 0
WaterTarget(seg, target) ==
    IF seg.hasWater /\ seg.waterDepth > 1 /\ target - (seg.waterDepth - 1) < 0
    THEN target + (0 - (target - (seg.waterDepth - 1)))
    ELSE target

\* The move of the segment, target being targetTopY before the special cases.
ValleyMove(st, opt, x, seg, southZ, southInfo, waterShade, target) ==
    LET zList == seg.zList
        hasSouthY == southZ \in DOMAIN st.currentMaxY
        special == seg.hasWater /\ waterShade.has /\ waterShade.shade \in {0, 1, 3}
                   /\ seg.waterDepth > 1
                   /\ target - (seg.waterDepth - 1) # 0 /\ hasSouthY
        caseOne == special /\ Len(zList) = 1 /\ southInfo.has /\ southInfo.shade \in {0, 3}
        caseTwo == special /\ Len(zList) # 1
    IN  IF caseTwo
        THEN IF isFillerDisabled(opt.fillerBlock)
             THEN MoveSegment(st, x, seg,
                              st.currentMaxY[southZ] + (seg.waterDepth - 1) - seg.topY)
             ELSE [MoveSegment(st, x, seg,
                               st.currentMaxY[southZ] + (seg.waterDepth - 1) - seg.topY)
                      EXCEPT !.blocks = SegmentFillers(@, x, st.currentMaxY[southZ],
                                                       Tail(zList), 1, opt.fillerBlock)]
        ELSE IF caseOne
        THEN IF st.currentMaxY[southZ] + (seg.waterDepth - 1) - seg.topY # 0
             THEN MoveSegment(st, x, seg,
                              st.currentMaxY[southZ] + (seg.waterDepth - 1) - seg.topY)
             ELSE st
        ELSE IF target - seg.topY # 0 THEN MoveSegment(st, x, seg, target - seg.topY)
        ELSE st

ValleySegmentSouth(st, img, opt, x, waterZ, seg, southZ, southInfo) ==
    ValleyMove(st, opt, x, seg, southZ, southInfo,
               pixelShade(img, opt.customColors, x, seg.zList[1]),
               WaterTarget(seg,
                   NorthTarget(st, img, opt.customColors, x, seg.zList,
                               {n \in 1..Len(seg.zList) : seg.zList[n] \notin waterZ},
                               SouthTarget(st, southZ, southInfo))))

\* The body of "for (const seg of segments)".
ValleySegmentStep(st, img, opt, x, waterZ, seg) ==
    ValleySegmentSouth(st, img, opt, x, waterZ, seg, seg.zList[Len(seg.zList)] + 1,
                       pixelShade(img, opt.customColors, x, seg.zList[Len(seg.zList)] + 1))

RECURSIVE ValleySegments(_, _, _, _, _, _, _)
ValleySegments(st, img, opt, x, waterZ, segments, n) ==
    IF n > Len(segments) THEN st
    ELSE ValleySegments(ValleySegmentStep(st, img, opt, x, waterZ, segments[n]),
                        img, opt, x, waterZ, segments, n + 1)

\* Filler rows follow the row south of them, or drop to 0 on their own.
ValleyFillers(st, x, zValues, primaryZ) ==
    [i \in 1..Len(st.blocks) |->
        IF st.blocks[i].x = x /\ st.blocks[i].z \in zValues \ primaryZ
        THEN IF st.blocks[i].z + 1 \in primaryZ
             THEN [st.blocks[i] EXCEPT !.y = @ + st.deltaApplied[st.blocks[i].z + 1]]
             ELSE [st.blocks[i] EXCEPT !.y = @ - Min(RowYs(st.blocks, x, st.blocks[i].z))]
        ELSE st.blocks[i]]

LoneWaterSegments(loneWater, origMaxY, origMinY) ==
    [n \in 1..Len(loneWater) |->
        Segment(<< loneWater[n] >>, origMaxY[loneWater[n]], TRUE,
                origMaxY[loneWater[n]] - origMinY[loneWater[n]] + 1)]

ValleyRuns(blocks, img, opt, x, zValues, primaryZ, waterZ, origMaxY, origMinY, runs) ==
    ValleyFillers(
        ValleySegments([blocks |-> blocks, currentMaxY |-> origMaxY,
                        deltaApplied |-> [z \in primaryZ |-> 0]],
                       img, opt, x, waterZ,
                       SortSegments(
                           runs \o LoneWaterSegments(
                                      SortedSeq(waterZ \ UNION {SeqToSet(runs[n].zList) :
                                                                  n \in 1..Len(runs)}),
                                      origMaxY, origMinY)),
                       1),
        x, zValues, primaryZ)

ValleyLevels(blocks, img, opt, x, zValues, primaryZ, waterZ, origMaxY, origMinY) ==
    ValleyRuns(blocks, img, opt, x, zValues, primaryZ, waterZ, origMaxY, origMinY,
               RunSegments(SortedSeq(primaryZ \ waterZ), waterZ, origMaxY, origMinY, 1,
                           << >>))

ValleyPrimary(blocks, img, opt, x, zValues, primaryZ) ==
    ValleyLevels(blocks, img, opt, x, zValues, primaryZ,
                 {z \in primaryZ : pixelShade(img, opt.customColors, x, z).isWater},
                 [z \in primaryZ |-> Max(RowYs(blocks, x, z))],
                 [z \in primaryZ |-> Min(RowYs(blocks, x, z))])

ValleyRows(blocks, img, opt, x, zValues) ==
    ValleyPrimary(blocks, img, opt, x, zValues,
                  {z \in zValues : pixelShade(img, opt.customColors, x, z).has})

ValleyColumn(blocks, img, opt, x) ==
    ValleyRows(blocks, img, opt, x, {blocks[i].z : i \in ColumnIdx(blocks, x)})

(***************************************************************************)
(* applyCancerMode                                                         *)
(*                                                                         *)
(* A 32-bit word is kept as [hi, lo], two 16-bit halves, so that no        *)
(* intermediate value leaves the range TLC handles.                        *)
(***************************************************************************)
Half == 65536
Word(hi, lo) == [hi |-> hi, lo |-> lo]
ToWord(n) == Word((n \div Half) % Half, n % Half)

RECURSIVE XorBits(_, _)
XorBits(a, b) ==
    IF a = 0 THEN b
    ELSE IF b = 0 THEN a
    ELSE (((a % 2) + (b % 2)) % 2) + 2 * XorBits(a \div 2, b \div 2)

RECURSIVE OrBits(_, _)
OrBits(a, b) ==
    IF a = 0 THEN b
    ELSE IF b = 0 THEN a
    ELSE Max({a % 2, b % 2}) + 2 * OrBits(a \div 2, b \div 2)

\* The two bit operations on hexadecimal digits, tabulated once.
XorDigit == [a \in 0..15 |-> [b \in 0..15 |-> XorBits(a, b)]]
OrDigit == [a \in 0..15 |-> [b \in 0..15 |-> OrBits(a, b)]]

RECURSIVE Xor16(_, _)
Xor16(a, b) ==
    IF a = 0 THEN b
    ELSE IF b = 0 THEN a
    ELSE XorDigit[a % 16][b % 16] + 16 * Xor16(a \div 16, b \div 16)

RECURSIVE Or16(_, _)
Or16(a, b) ==
    IF a = 0 THEN b
    ELSE IF b = 0 THEN a
    ELSE OrDigit[a % 16][b % 16] + 16 * Or16(a \div 16, b \div 16)

RECURSIVE Pow2(_)
Pow2(k) == IF k = 0 THEN 1 ELSE 2 * Pow2(k - 1)

Xor32(a, b) == Word(Xor16(a.hi, b.hi), Xor16(a.lo, b.lo))
OrLow(a, n) == Word(a.hi, Or16(a.lo, n))                    \* a | n, n below 2^16
Add32(a, b) ==
    LET lo == a.lo + b.lo
    IN  Word((a.hi + b.hi + (lo \div Half)) % Half, lo % Half)
Shr32(a, k) ==                                              \* a >>> k, 0 < k < 16
    Word(a.hi \div Pow2(k), ((a.hi % Pow2(k)) * Pow2(16 - k)) + (a.lo \div Pow2(k)))

\* The full product of two 16-bit halves, as a word: p1 is a * (b >> 8), lo
\* the low part of the product before the carry is taken out.
Mul16Carry(p1, lo) == Word((p1 \div 256) + (lo \div Half), lo % Half)
Mul16High(a, b, p1) == Mul16Carry(p1, ((p1 % 256) * 256) + (a * (b % 256)))
Mul16(a, b) == Mul16High(a, b, a * (b \div 256))

imulSum(low, cross) == Word((low.hi + cross) % Half, low.lo)
imul(a, b) ==                                               \* Math.imul: product mod 2^32
    imulSum(Mul16(a.lo, b.lo), (Mul16(a.hi, b.lo).lo + Mul16(a.lo, b.hi).lo) % Half)

SeedStep == Word(27947, 31221)                              \* 0x6d2b79f5

\* One call of the closure returned by mulberry32: the seed after the call
\* and the 32-bit numerator of the fraction returned.
mulberryOut(seed, t) == [seed |-> seed, value |-> Xor32(t, Shr32(t, 14))]
mulberryMix(seed, t) ==             \* t ^= t + Math.imul(t ^ (t >>> 7), t | 61)
    mulberryOut(seed, Xor32(t, Add32(t, imul(Xor32(t, Shr32(t, 7)), OrLow(t, 61)))))
mulberryStep(seed) ==               \* t = Math.imul(t ^ (t >>> 15), t | 1)
    mulberryMix(seed, imul(Xor32(seed, Shr32(seed, 15)), OrLow(seed, 1)))
mulberry32(seed) == mulberryStep(Add32(seed, SeedStep))

\* Math.floor(rand() * k) for a small k
RandFloor(value, k) == ((value.hi * k) + ((value.lo * k) \div Half)) \div Half

\* pixelInfo.get(z) of the cancer pass for column x
pixelInfo(img, cc, x, z) ==
    IF z < 0 \/ z >= MapSize THEN NoShade ELSE PassInfoOf(PixelAt(img, x, z), cc)

\* newTopY.set(z, y); lastNonTransparentY = y, with the seed the draw left
CancerSet(st, seed, z, y) ==
    [seed |-> seed, last |-> y,
     newTopY |-> (z :> y) @@ st.newTopY]

CancerWater(st, seed, z, depth, waterTop) ==
    CancerSet(st, seed, z,
              IF waterTop - depth + 1 < 0 THEN waterTop + (0 - (waterTop - depth + 1))
              ELSE waterTop)

\* One iteration of the loop that assigns newTopY, r being a draw of rand();
\* st is [seed, last, newTopY].
CancerDraw(st, info, z, depth, r) ==
    IF info.isWater THEN CancerWater(st, r.seed, z, depth, st.last + RandFloor(r.value, 4))
    ELSE IF info.shade = 2 THEN CancerSet(st, r.seed, z, st.last + 1 + RandFloor(r.value, 5))
    ELSE IF info.shade = 1 THEN CancerSet(st, st.seed, z, st.last)
    ELSE CancerSet(st, r.seed, z, st.last - (1 + RandFloor(r.value, 5)))

CancerAssign(st, info, z, depth) == CancerDraw(st, info, z, depth, mulberry32(st.seed))

\* (origMaxY.get(z) ?? 0) - (origMinY.get(z) ?? 0) + 1
CancerDepth(ys) == IF ys = {} THEN 1 ELSE Max(ys) - Min(ys) + 1

RECURSIVE CancerAssignAll(_, _, _, _, _, _, _)
CancerAssignAll(st, blocks, img, cc, x, primaryZs, n) ==
    \* the loop is over once every row of primaryZs has its newTopY
    IF Cardinality(DOMAIN st.newTopY) = Len(primaryZs) THEN st
    ELSE CancerAssignAll(CancerAssign(st, pixelInfo(img, cc, x, primaryZs[n]),
                                      primaryZs[n],
                                      CancerDepth(RowYs(blocks, x, primaryZs[n]))),
                         blocks, img, cc, x, primaryZs, n + 1)

\* Math.round((y + shift) * scale) with scale = 128 / span when span > 128:
\* the nearest integer, a tie going up.
CancerNormalize(y, minY, span) ==
    IF span > 128 THEN (((y - minY) * 256) + span) \div (2 * span) ELSE y - minY

\* The blocks of the rows in moved follow their row, filler rows the row
\* south of them.
CancerShift(blocks, x, primarySet, moved, deltaApplied) ==
    [i \in 1..Len(blocks) |->
        IF blocks[i].x # x THEN blocks[i]
        ELSE IF blocks[i].z \in moved
        THEN [blocks[i] EXCEPT !.y = @ + deltaApplied[blocks[i].z]]
        ELSE IF blocks[i].z \notin primarySet /\ blocks[i].z + 1 \in moved
        THEN [blocks[i] EXCEPT !.y = @ + deltaApplied[blocks[i].z + 1]]
        ELSE blocks[i]]

CancerSpan(blocks, x, primarySet, newTopY, moved, minY, maxY) ==
    CancerShift(blocks, x, primarySet, moved,
                [z \in moved |-> CancerNormalize(newTopY[z], minY, maxY - minY)
                                 - Max(RowYs(blocks, x, z))])

CancerLevels(blocks, x, primarySet, newTopY) ==
    CancerSpan(blocks, x, primarySet, newTopY,
               {z \in primarySet : RowYs(blocks, x, z) # {}},
               Min({newTopY[z] : z \in primarySet}), Max({newTopY[z] : z \in primarySet}))

CancerStart(blocks, img, opt, x, primarySet, first) ==
    CancerLevels(blocks, x, primarySet,
                 CancerAssignAll([seed |-> first.seed,
                                  last |-> RandFloor(first.value, 64) + 32,
                                  newTopY |-> << >>],
                                 blocks, img, opt.customColors, x, SortedSeq(primarySet),
                                 1).newTopY)

CancerPrimary(blocks, img, opt, x, primarySet) ==
    IF primarySet = {} THEN blocks
    ELSE CancerStart(blocks, img, opt, x, primarySet, mulberry32(ToWord(x * 7919 + 42)))

CancerColumn(blocks, img, opt, x) ==
    CancerPrimary(blocks, img, opt, x,
                  {z \in 0..(MapSize - 1) : pixelInfo(img, opt.customColors, x, z).has})

VariantColumn(blocks, mode, img, opt, x) ==
    CASE mode = "staircase_classic" -> ClassicColumn(blocks, x)
      [] mode = "staircase_southline" -> SouthlineColumn(blocks, x)
      [] mode = "staircase_valley" -> ValleyColumn(blocks, img, opt, x)
      [] mode = "staircase_cancer" -> CancerColumn(blocks, img, opt, x)
      [] OTHER -> blocks

RECURSIVE VariantColumns(_, _, _, _, _, _)
VariantColumns(blocks, mode, img, opt, columns, n) ==
    IF n > Len(columns) THEN blocks
    ELSE VariantColumns(AsList(VariantColumn(blocks, mode, img, opt, columns[n])),
                        mode, img, opt, columns, n + 1)

IsSuppressMode(mode) ==                                      \* mode.startsWith("suppress")
    mode \in {"suppress_checker", "suppress_pairs", "suppress_pairs_ew", "suppress_dual_layer"}

applyStaircaseVariant(blocks, mode, img, opt) ==
    IF mode = "staircase_northline" \/ mode = "flat" \/ IsSuppressMode(mode) THEN blocks
    ELSE VariantColumns(blocks, mode, img, opt, ColumnOrder(blocks), 1)

(***************************************************************************)
(* Support blocks                                                          *)
(***************************************************************************)
FRAGILE_BLOCKS ==
    { "white_carpet", "orange_carpet", "magenta_carpet", "light_blue_carpet",
      "yellow_carpet", "lime_carpet", "pink_carpet", "gray_carpet",
      "light_gray_carpet", "cyan_carpet", "purple_carpet", "blue_carpet",
      "brown_carpet", "green_carpet", "red_carpet", "black_carpet",
      "moss_carpet", "pale_moss_carpet", "stone_pressure_plate", "oak_pressure_plate",
      "birch_pressure_plate", "spruce_pressure_plate", "jungle_pressure_plate", "acacia_pressure_plate",
      "dark_oak_pressure_plate", "crimson_pressure_plate", "warped_pressure_plate", "cherry_pressure_plate",
      "pale_oak_pressure_plate", "light_weighted_pressure_plate", "heavy_weighted_pressure_plate", "mangrove_pressure_plate",
      "oak_sign", "birch_sign", "spruce_sign", "jungle_sign",
      "acacia_sign", "dark_oak_sign", "crimson_sign", "warped_sign",
      "cherry_sign", "pale_oak_sign", "mangrove_sign", "oak_door",
      "birch_door", "spruce_door", "jungle_door", "acacia_door",
      "dark_oak_door", "crimson_door", "warped_door", "cherry_door",
      "pale_oak_door", "mangrove_door", "iron_door", "oak_trapdoor",
      "birch_trapdoor", "spruce_trapdoor", "jungle_trapdoor", "acacia_trapdoor",
      "dark_oak_trapdoor", "crimson_trapdoor", "warped_trapdoor", "cherry_trapdoor",
      "pale_oak_trapdoor", "mangrove_trapdoor", "iron_trapdoor", "candle",
      "white_candle", "orange_candle", "magenta_candle", "light_blue_candle",
      "yellow_candle", "lime_candle", "pink_candle", "gray_candle",
      "light_gray_candle", "cyan_candle", "purple_candle", "blue_candle",
      "brown_candle", "green_candle", "red_candle", "black_candle",
      "pink_petals", "fern", "short_grass", "tall_grass",
      "dead_bush", "sugar_cane", "cactus", "vines",
      "lily_pad", "crimson_roots", "warped_roots", "nether_sprouts",
      "twisting_vines", "weeping_vines", "crimson_fungus", "warped_fungus",
      "hanging_roots", "sea_pickle", "nether_wart", "bamboo_sapling",
      "brown_mushroom", "red_mushroom", "chorus_plant", "chorus_flower",
      "fire", "snow", "pointed_dripstone", "lantern",
      "bell", "turtle_egg", "leaf_litter", "open_eyeblossom",
      "closed_eyeblossom", "sculk_sensor", "calibrated_sculk_sensor", "sculk_vein",
      "scaffolding", "glow_lichen", "resin_clump" }

\* Strips the property suffix, then looks the name up.
isFragileBlock(blockId) ==
    LET bracketIdx == IndexOf(blockId, "[")
        name == IF bracketIdx >= 1 THEN SubSeq(blockId, 1, bracketIdx - 1) ELSE blockId
    IN  Len(name) = 1 /\ name[1] \in FRAGILE_BLOCKS

StripNamespace(blockName) ==        \* blockName.replace(/^minecraft:/, "")
    IF Len(blockName) >= 1 /\ blockName[1] = "minecraft:" THEN Tail(blockName)
    ELSE blockName

Pos(b) == << b.x, b.y, b.z >>
Occupied(blocks) == {Pos(blocks[i]) : i \in 1..Len(blocks)}

\* Keys of the topY Map in insertion order, and its values.
ColumnKeys(blocks) ==
    LET firsts == {i \in 1..Len(blocks) :
                      \A j \in 1..(i - 1) :
                          blocks[j].x # blocks[i].x \/ blocks[j].z # blocks[i].z}
        order == SortedSeq(firsts)
    IN  AsList([n \in 1..Len(order) |-> << blocks[order[n]].x, blocks[order[n]].z >>])
HasColumn(blocks, x, z) == \E i \in 1..Len(blocks) : blocks[i].x = x /\ blocks[i].z = z
TopY(blocks, x, z) ==
    Max({blocks[i].y : i \in {j \in 1..Len(blocks) : blocks[j].x = x /\ blocks[j].z = z}})

RECURSIVE StepExtra(_, _, _, _, _)
StepExtra(blocks, keys, n, filler, extra) ==
    IF n > Len(keys) THEN extra
    ELSE LET x == keys[n][1]
             z == keys[n][2]
             y == TopY(blocks, x, z)
             higherThanNorth == HasColumn(blocks, x, z - 1) /\ y > TopY(blocks, x, z - 1)
             higherThanSouth == HasColumn(blocks, x, z + 1) /\ y > TopY(blocks, x, z + 1)
         IN  StepExtra(blocks, keys, n + 1, filler,
                IF (higherThanNorth \/ higherThanSouth)
                   /\ << x, y - 1, z >> \notin Occupied(blocks)
                THEN Append(extra, Block(x, y - 1, z, resolveBlockName(filler)))
                ELSE extra)

addStepSupport(blocks, filler) ==
    blocks \o StepExtra(blocks, ColumnKeys(blocks), 1, filler, << >>)

\* The loop of addAllSupport and addFragileSupport: a position is occupied
\* when a block of the list or an earlier extra sits there.
RECURSIVE BelowExtra(_, _, _, _, _, _)
BelowExtra(blocks, n, filler, fragileOnly, occupied, extra) ==
    IF n > Len(blocks) THEN extra
    ELSE LET b == blocks[n]
             below == << b.x, b.y - 1, b.z >>
             wanted == ~fragileOnly \/ isFragileBlock(StripNamespace(b.blockName))
         IN  IF wanted /\ below \notin occupied \cup Occupied(extra)
             THEN BelowExtra(blocks, n + 1, filler, fragileOnly, occupied,
                             Append(extra, Block(b.x, b.y - 1, b.z,
                                                 resolveBlockName(filler))))
             ELSE BelowExtra(blocks, n + 1, filler, fragileOnly, occupied, extra)

\* mutant: forgets which cells the list already occupies
addAllSupportMutNoOccupied(blocks, filler) ==
    blocks \o BelowExtra(blocks, 1, filler, FALSE, {}, << >>)

addAllSupport(blocks, filler) ==
    blocks \o BelowExtra(blocks, 1, filler, FALSE, Occupied(blocks), << >>)

addFragileSupport(blocks, filler) ==
    blocks \o BelowExtra(blocks, 1, filler, TRUE, Occupied(blocks), << >>)

WaterNeighbors(w) ==
    << << w.x, w.y, w.z - 1 >>, << w.x, w.y, w.z + 1 >>, << w.x - 1, w.y, w.z >>,
       << w.x + 1, w.y, w.z >>, << w.x, w.y - 1, w.z >> >>

RECURSIVE WaterNeighborExtra(_, _, _, _, _)
WaterNeighborExtra(w, k, fillerName, occupied, extra) ==
    IF k > 5 THEN extra
    ELSE LET pos == WaterNeighbors(w)[k]
         IN  IF pos \notin occupied \cup Occupied(extra)
             THEN WaterNeighborExtra(w, k + 1, fillerName, occupied,
                                     Append(extra, Block(pos[1], pos[2], pos[3], fillerName)))
             ELSE WaterNeighborExtra(w, k + 1, fillerName, occupied, extra)

RECURSIVE WaterExtra(_, _, _, _, _)
WaterExtra(waters, n, fillerName, occupied, extra) ==
    IF n > Len(waters) THEN extra
    ELSE WaterExtra(waters, n + 1, fillerName, occupied,
                    WaterNeighborExtra(waters[n], 1, fillerName, occupied, extra))

\* mutant: the filler voxels come before the voxels of the list
addWaterSupportMutFillerFirst(blocks, filler) ==
    LET waters == SelectSeq(blocks, LAMBDA b : isWaterBlock(b.blockName))
    IN  WaterExtra(waters, 1, resolveBlockName(filler), Occupied(blocks), << >>) \o blocks

addWaterSupport(blocks, filler) ==
    LET waters == SelectSeq(blocks, LAMBDA b : isWaterBlock(b.blockName))
    IN  blocks \o WaterExtra(waters, 1, resolveBlockName(filler), Occupied(blocks), << >>)

applySupport(blocks, opt) ==
    IF isFillerDisabled(opt.fillerBlock) THEN blocks
    ELSE CASE opt.supportMode = "steps" -> addStepSupport(blocks, opt.fillerBlock)
           [] opt.supportMode = "all" -> addAllSupport(blocks, opt.fillerBlock)
           [] opt.supportMode = "fragile" -> addFragileSupport(blocks, opt.fillerBlock)
           [] opt.supportMode = "water" -> addWaterSupport(blocks, opt.fillerBlock)
           [] OTHER -> blocks

(***************************************************************************)
(* normalizeAndMeasure                                                     *)
(***************************************************************************)
\* mutant: the size along z is the extent of the blocks, with no minimum
normalizeAndMeasureMutRawSize(blocks) ==
    IF Len(blocks) = 0
    THEN [blocks |-> blocks, sizeX |-> 128, sizeY |-> 1, sizeZ |-> 128]
    ELSE LET ys == {blocks[i].y : i \in 1..Len(blocks)}
             zs == {blocks[i].z : i \in 1..Len(blocks)}
         IN  [blocks |-> AsList([i \in 1..Len(blocks) |->
                                      [blocks[i] EXCEPT !.y = @ - Min(ys),
                                                        !.z = IF Min(zs) < 0
                                                              THEN @ - Min(zs) ELSE @]]),
              sizeX |-> 128,
              sizeY |-> Max(ys) - Min(ys) + 1,
              sizeZ |-> (IF Min(zs) < 0 THEN Max(zs) - Min(zs) ELSE Max(zs)) + 1]

\* mutant: Y is counted from the top voxel down
normalizeAndMeasureMutFromTop(blocks) ==
    IF Len(blocks) = 0
    THEN [blocks |-> blocks, sizeX |-> 128, sizeY |-> 1, sizeZ |-> 128]
    ELSE LET ys == {blocks[i].y : i \in 1..Len(blocks)}
             zs == {blocks[i].z : i \in 1..Len(blocks)}
             rawSizeZ == (IF Min(zs) < 0 THEN Max(zs) - Min(zs) ELSE Max(zs)) + 1
             minSizeZ == IF Min(zs) < 0 THEN 129 ELSE 128
         IN  [blocks |-> AsList([i \in 1..Len(blocks) |->
                            [blocks[i] EXCEPT !.y = Max(ys) - @,
                                              !.z = IF Min(zs) < 0 THEN @ - Min(zs) ELSE @]]),
              sizeX |-> 128, sizeY |-> Max(ys) - Min(ys) + 1,
              sizeZ |-> IF rawSizeZ > minSizeZ THEN rawSizeZ ELSE minSizeZ]

\* mutant: Z is shifted to minimum 0 whatever the minimum was
normalizeAndMeasureMutShiftZAlways(blocks) ==
    IF Len(blocks) = 0
    THEN [blocks |-> blocks, sizeX |-> 128, sizeY |-> 1, sizeZ |-> 128]
    ELSE LET ys == {blocks[i].y : i \in 1..Len(blocks)}
             zs == {blocks[i].z : i \in 1..Len(blocks)}
             rawSizeZ == (IF Min(zs) < 0 THEN Max(zs) - Min(zs) ELSE Max(zs)) + 1
             minSizeZ == IF Min(zs) < 0 THEN 129 ELSE 128
         IN  [blocks |-> AsList([i \in 1..Len(blocks) |->
                            [blocks[i] EXCEPT !.y = @ - Min(ys), !.z = @ - Min(zs)]]),
              sizeX |-> 128, sizeY |-> Max(ys) - Min(ys) + 1,
              sizeZ |-> IF rawSizeZ > minSizeZ THEN rawSizeZ ELSE minSizeZ]

normalizeAndMeasure(blocks) ==
    IF Len(blocks) = 0
    THEN [blocks |-> blocks, sizeX |-> 128, sizeY |-> 1, sizeZ |-> 128]
    ELSE LET ys == {blocks[i].y : i \in 1..Len(blocks)}
             zs == {blocks[i].z : i \in 1..Len(blocks)}
             minY == Min(ys)
             maxY == Max(ys)
             minZ == Min(zs)
             maxZ == Max(zs)
             rawSizeZ == (IF minZ < 0 THEN maxZ - minZ ELSE maxZ) + 1
             minSizeZ == IF minZ < 0 THEN 129 ELSE 128
         IN  [blocks |-> AsList([i \in 1..Len(blocks) |->
                                      [blocks[i] EXCEPT !.y = @ - minY,
                                                        !.z = IF minZ < 0 THEN @ - minZ
                                                              ELSE @]]),
              sizeX |-> 128,
              sizeY |-> maxY - minY + 1,
              sizeZ |-> IF rawSizeZ > minSizeZ THEN rawSizeZ ELSE minSizeZ]

(***************************************************************************)
(* buildSuppressPairsBlocks                                                *)
(***************************************************************************)
NoPixel == [has |-> FALSE, block |-> << >>, isWater |-> FALSE, shade |-> -1]

\* customMatch ? customMatch.block
\*             : options.blockMapping[baseIndex] || BASE_COLORS[baseIndex].blocks[0]
PixelBlock(opt, match, customMatch) ==
    IF IsCustom(customMatch) THEN customMatch.block ELSE MappedBlock(opt, match.baseIndex)

\* What the suppress builders read from a pixel: the custom table is
\* consulted before the palette match; an empty block string skips the pixel.
SuppressInfo(match, customMatch, block) ==
    IF ~IsMatch(match) /\ ~IsCustom(customMatch) THEN NoPixel
    ELSE IF block = << >> THEN NoPixel
    ELSE [has |-> TRUE, block |-> block,
          isWater |-> ~IsCustom(customMatch) /\ BASE_COLORS_isWater(match.baseIndex),
          shade |-> IF IsCustom(customMatch) THEN 1 ELSE match.shade]

SuppressOpaque(opt, match, customMatch) ==
    SuppressInfo(match, customMatch, PixelBlock(opt, match, customMatch))

SuppressOf(p, opt) ==
    IF p.a = 0 THEN NoPixel
    ELSE SuppressOpaque(opt, LookupGet(KeyOf(p)), CustomGet(opt.customColors, KeyOf(p)))

SuppressPixel(img, opt, x, z) == SuppressOf(PixelAt(img, x, z), opt)

StepsOrAll(opt) == opt.supportMode = "steps" \/ opt.supportMode = "all"

\* Dark: filler one higher north, dark being the list that holds it
PairsDark(dark, opt, x, z) ==
    IF StepsOrAll(opt) THEN addBlock(dark, x, 0, z - 1, opt.fillerBlock) ELSE dark

\* Filler north of the colour block, colour being the list that holds it
PairsFiller(colour, opt, x, z, shade) ==
    IF shade = 2 \/ isFillerDisabled(opt.fillerBlock) THEN colour
    ELSE IF shade = 1 THEN addBlock(colour, x, 0, z - 1, opt.fillerBlock)
    ELSE PairsDark(addBlock(colour, x, 1, z - 1, opt.fillerBlock), opt, x, z)

PairsPlace(blocks, opt, x, z, info) ==
    IF ~info.has THEN blocks
    ELSE IF info.isWater
    THEN AddWaterStack(blocks, x, 0, z, info.block, 0, getWaterDepth(info.shade, x, z))
    ELSE PairsFiller(addBlock(blocks, x, 0, z, info.block), opt, x, z, info.shade)

PairsPixel(blocks, img, opt, x, z) ==
    PairsPlace(blocks, opt, x, z, SuppressPixel(img, opt, x, z))

RECURSIVE PairsCells(_, _, _, _, _, _, _)
PairsCells(blocks, img, opt, cols, rows, k, n) ==
    IF k > Len(rows) THEN blocks
    ELSE IF n > Len(cols) THEN PairsCells(blocks, img, opt, cols, rows, k + 1, 1)
    ELSE PairsCells(PairsPixel(blocks, img, opt, cols[n], rows[k]), img, opt, cols, rows,
                    k, n + 1)

HalfSupport(blocks, opt) ==
    IF opt.supportMode # "none" THEN applySupport(blocks, opt) ELSE blocks

buildHalf(img, opt, startRow) ==
    HalfSupport(PairsCells(<< >>, img, opt, SortedSeq(ActiveCols(img)),
                           SortedSeq({z \in ActiveRows(img) : z % 2 = startRow}), 1, 1),
                opt)

buildSuppressPairsBlocks(img, opt) == << buildHalf(img, opt, 0), buildHalf(img, opt, 1) >>

(***************************************************************************)
(* buildSuppressPairsEWBlocksByStep                                        *)
(***************************************************************************)
EWNeedsSupport(opt, block) ==
    /\ ~isFillerDisabled(opt.fillerBlock)
    /\ \/ opt.supportMode = "all"
       \/ (opt.supportMode = "fragile" /\ isFragileBlock(block))
       \/ opt.supportMode = "steps"

EWStep(blocks, maxYUsed) == [blocks |-> blocks, maxYUsed |-> maxYUsed]

\* Dark: filler one higher north, dark being the list that holds it
EWDark(dark, maxYUsed, opt, x, z, baseY) ==
    EWStep(IF StepsOrAll(opt) THEN addBlock(dark, x, baseY, z - 1, opt.fillerBlock)
           ELSE dark,
           IF baseY + 1 > maxYUsed THEN baseY + 1 ELSE maxYUsed)

\* Filler north of the colour row, blocks holding the colour block and its support
EWFiller(blocks, maxYUsed, opt, x, z, baseY, shade) ==
    IF isFillerDisabled(opt.fillerBlock) \/ shade = 2 THEN EWStep(blocks, maxYUsed)
    ELSE IF shade = 1
    THEN EWStep(addBlock(blocks, x, baseY, z - 1, opt.fillerBlock), maxYUsed)
    ELSE EWDark(addBlock(blocks, x, baseY + 1, z - 1, opt.fillerBlock), maxYUsed, opt,
                x, z, baseY)

\* Support block under the colour block, colour being the list that holds it
EWSupport(colour, maxYUsed, opt, x, z, baseY, shade, needsSupport) ==
    EWFiller(IF needsSupport /\ baseY > 0
             THEN addBlock(colour, x, baseY - 1, z, opt.fillerBlock) ELSE colour,
             IF needsSupport /\ baseY > maxYUsed THEN Max({maxYUsed, baseY})
             ELSE maxYUsed,
             opt, x, z, baseY, shade)

EWWater(st, x, z, baseY, block, depth) ==
    EWStep(AddWaterStack(st.blocks, x, baseY, z, block, 0, depth),
           IF baseY + depth - 1 > st.maxYUsed THEN baseY + depth - 1 ELSE st.maxYUsed)

EWPlace(st, opt, x, z, baseY, info) ==
    IF ~info.has THEN st
    ELSE IF info.isWater
    THEN EWWater(st, x, z, baseY, info.block, getWaterDepth(info.shade, x, z))
    ELSE EWSupport(addBlock(st.blocks, x, baseY, z, info.block), st.maxYUsed, opt, x, z,
                   baseY, info.shade, EWNeedsSupport(opt, info.block))

\* st is [blocks, maxYUsed]: stepBlocks and maxYUsed of the step under way.
EWPixel(st, img, opt, x, z, baseY) ==
    EWPlace(st, opt, x, z, baseY, SuppressPixel(img, opt, x, z))

RECURSIVE EWCells(_, _, _, _, _, _, _, _)
EWCells(st, img, opt, cols, rows, baseY, n, k) ==
    IF n > Len(cols) THEN st
    ELSE IF k > Len(rows) THEN EWCells(st, img, opt, cols, rows, baseY, n + 1, 1)
    ELSE EWCells(EWPixel(st, img, opt, cols[n], rows[k], baseY), img, opt, cols, rows,
                 baseY, n, k + 1)

\* The colour rows of a step: the odd rows when useEvenRows, else the even ones.
EWStepRows(img, useEvenRows) ==
    SortedSeq({z \in ActiveRows(img) : IF useEvenRows THEN z % 2 = 1 ELSE z % 2 = 0})

\* A column none of whose pixels is opaque leaves the step untouched.
EWStepCols(img, anchor, step) ==
    SelectSeq(IF step = 0 THEN << 127 >> ELSE << anchor + 1, anchor >>,
              LAMBDA x : x \in ActiveCols(img))

\* The while loop over anchor = 127 - step.  A step whose columns hold no
\* opaque pixel pushes an empty list and leaves maxYUsed at baseY, so baseY
\* grows by one over it: the loop is unrolled over the other steps only,
\* prevStep and prevMax being the step and maxYUsed of the one before.
RECURSIVE EWSteps(_, _, _, _, _, _)
EWStepDone(img, opt, active, n, st) ==
    << [step |-> active[n], blocks |-> st.blocks] >>
    \o EWSteps(img, opt, active, n + 1, active[n], st.maxYUsed)

EWStepAt(img, opt, active, n, baseY) ==
    EWStepDone(img, opt, active, n,
               EWCells(EWStep(<< >>, baseY), img, opt,
                       EWStepCols(img, 127 - active[n], active[n]),
                       EWStepRows(img, active[n] % 2 = 0), baseY, 1, 1))

\* mutant: the base Y of a step is the highest Y used by the step before
EWStepsMutNoRaise(img, opt, active, n, prevStep, prevMax) ==
    IF n > Len(active) THEN << >>
    ELSE EWStepAt(img, opt, active, n,
                  IF prevStep < 0 THEN active[n] ELSE prevMax + (active[n] - prevStep) - 1)

EWSteps(img, opt, active, n, prevStep, prevMax) ==
    IF n > Len(active) THEN << >>
    ELSE EWStepAt(img, opt, active, n, prevMax + (active[n] - prevStep))

\* steps[i - 1] for i = 1..128, done holding the steps that placed something
EWStepList(done) ==
    AsList([i \in 1..128 |->
               IF \E n \in 1..Len(done) : done[n].step = i - 1
               THEN done[CHOOSE n \in 1..Len(done) : done[n].step = i - 1].blocks
               ELSE << >>])

buildSuppressPairsEWBlocksByStep(img, opt) ==
    EWStepList(EWSteps(img, opt,
                       SortedSeq({step \in 0..127 :
                                     EWStepCols(img, 127 - step, step) # << >>}),
                       1, -1, -1))

RECURSIVE Flat(_)
Flat(seqs) ==                                  \* steps.flat()
    IF Len(seqs) = 0 THEN << >>
    ELSE IF Len(seqs) = 1 THEN seqs[1]
    ELSE LET half == Len(seqs) \div 2
         IN  Flat(SubSeq(seqs, 1, half)) \o Flat(SubSeq(seqs, half + 1, Len(seqs)))

buildSuppressPairsEWBlocks(img, opt) == Flat(buildSuppressPairsEWBlocksByStep(img, opt))

(***************************************************************************)
(* buildSuppressDualLayerBlocks                                            *)
(***************************************************************************)
DefaultLayerGap == 5
L1 == 0
L2(opt) == IF opt.layerGap = << >> THEN DefaultLayerGap ELSE opt.layerGap[1]

NoInfo == [has |-> FALSE, shade |-> 0, block |-> << >>, isWater |-> FALSE, mcShade |-> -1]

\* Shade mapping: MC shade 2 = light -> 1, 1 = normal -> 2, 0/3 = dark -> 3
DualInfo(match, customMatch, block, mcShade) ==
    IF ~IsMatch(match) /\ ~IsCustom(customMatch) THEN NoInfo
    ELSE IF block = << >> THEN NoInfo
    ELSE [has |-> TRUE,
          shade |-> IF mcShade = 2 THEN 1 ELSE IF mcShade = 1 THEN 2 ELSE 3,
          block |-> block,
          isWater |-> ~IsCustom(customMatch) /\ BASE_COLORS_isWater(match.baseIndex),
          mcShade |-> mcShade]

DualOpaque(opt, match, customMatch) ==
    DualInfo(match, customMatch, PixelBlock(opt, match, customMatch),
             IF IsCustom(customMatch) THEN 1 ELSE match.shade)

DualOf(p, opt) ==
    IF p.a = 0 THEN NoInfo
    ELSE DualOpaque(opt, LookupGet(KeyOf(p)), CustomGet(opt.customColors, KeyOf(p)))

getPixelInfo(img, opt, x, z) ==
    IF z < 0 \/ z >= MapSize \/ x < 0 \/ x >= MapSize THEN NoInfo
    ELSE DualOf(PixelAt(img, x, z), opt)

\* The colour block at level y, and its filler north at level fy
DualFiller(colour, opt, x, z, fy) ==
    IF isFillerDisabled(opt.fillerBlock) THEN colour
    ELSE addBlock(colour, x, fy, z - 1, opt.fillerBlock)

DualAt(blocks, x, z, block, y) == addBlock(blocks, x, y, z, block)
DualWithFiller(blocks, opt, x, z, block, y, fy) ==
    DualFiller(DualAt(blocks, x, z, block, y), opt, x, z, fy)

\* ns and ss are the shades of the pixels north and south, l2 the upper level
DualPlace(blocks, opt, x, z, info, ns, ss, l2) ==
    IF ~info.has THEN blocks
    ELSE IF info.isWater
    THEN AddWaterStack(blocks, x, L1, z, info.block, 0, getWaterDepth(info.mcShade, x, z))
    ELSE IF info.shade = 3
    THEN IF z % 2 = 0
         THEN DualWithFiller(blocks, opt, x, z, info.block, L1,
                             IF ns = 1 THEN L1 + 1 ELSE l2)
         ELSE IF ss = 1 /\ (ns = 2 \/ ns = 3)
         THEN DualWithFiller(blocks, opt, x, z, info.block, l2, l2 + 1)
         ELSE DualWithFiller(blocks, opt, x, z, info.block, L1,
                             IF ns = 1 THEN L1 + 1 ELSE l2)
    ELSE IF info.shade = 2
    THEN IF z % 2 = 0
         THEN IF ns = 1 THEN DualWithFiller(blocks, opt, x, z, info.block, L1, L1)
              ELSE IF ns = 2 \/ ns = 3 THEN DualAt(blocks, x, z, info.block, L1)
              ELSE DualWithFiller(blocks, opt, x, z, info.block, l2,
                                  IF ss = 2 THEN L1 ELSE l2)
         ELSE IF ns >= 1 THEN DualAt(blocks, x, z, info.block, L1)
              ELSE DualWithFiller(blocks, opt, x, z, info.block, l2,
                                  IF ss = 2 THEN L1 ELSE l2)
    ELSE IF z % 2 = 0 THEN DualAt(blocks, x, z, info.block, L1)
    ELSE DualAt(blocks, x, z, info.block, l2)

DualPixel(blocks, img, opt, x, z) ==
    DualPlace(blocks, opt, x, z, getPixelInfo(img, opt, x, z),
              getPixelInfo(img, opt, x, z - 1).shade,
              getPixelInfo(img, opt, x, z + 1).shade, L2(opt))

RECURSIVE DualCells(_, _, _, _, _, _, _)
DualCells(blocks, img, opt, cols, rows, n, k) ==
    IF n > Len(cols) THEN blocks
    ELSE IF k > Len(rows) THEN DualCells(blocks, img, opt, cols, rows, n + 1, 1)
    ELSE DualCells(DualPixel(blocks, img, opt, cols[n], rows[k]), img, opt, cols, rows,
                   n, k + 1)

buildSuppressDualLayerBlocks(img, opt) ==
    DualCells(<< >>, img, opt, SortedSeq(ActiveCols(img)), SortedSeq(ActiveRows(img)), 1, 1)

(***************************************************************************)
(* writeStructureNbt, gzipCompress, createZip, convertToNbt                *)
(*                                                                         *)
(* The structure file is kept as the tag tree its bytes encode, a          *)
(* compressed buffer as [gzip |-> what it decompresses to], an archive as  *)
(* the sequence of its [name, data] entries, and a file name as the        *)
(* sequence of the strings it is concatenated from.                        *)
(***************************************************************************)
parseBlockId(id) ==
    LET bracketIdx == IndexOf(id, "[")
    IN  IF bracketIdx < 1 THEN [name |-> id, props |-> << >>]
        ELSE [name |-> SubSeq(id, 1, bracketIdx - 1),
              props |-> ParseProps(SplitOn(InsideBrackets(id, bracketIdx), ","), << >>)]

\* The distinct block names in order of first appearance: paletteMap's keys.
PaletteNames(blocks) ==
    LET firsts == {i \in 1..Len(blocks) :
                      \A j \in 1..(i - 1) : blocks[j].blockName # blocks[i].blockName}
        order == SortedSeq(firsts)
    IN  AsList([n \in 1..Len(order) |-> blocks[order[n]].blockName])

PaletteIndex(names, blockName) ==
    Min({n \in 1..Len(names) : names[n] = blockName}) - 1

\* mutant: every voxel pushes a palette entry of its own
writeStructureNbtMutEntryPerVoxel(blocks, sizeX, sizeY, sizeZ) ==
    [DataVersion |-> 3837,
     size |-> << sizeX, sizeY, sizeZ >>,
     palette |-> [i \in 1..Len(blocks) |-> parseBlockId(blocks[i].blockName)],
     blocks |-> [i \in 1..Len(blocks) |->
                   [pos |-> << blocks[i].x, blocks[i].y, blocks[i].z >>, state |-> i - 1]],
     entities |-> << >>]

writeStructureNbt(blocks, sizeX, sizeY, sizeZ) ==
    LET names == PaletteNames(blocks)
    IN  [DataVersion |-> 3837,
         size |-> << sizeX, sizeY, sizeZ >>,
         palette |-> [n \in 1..Len(names) |-> parseBlockId(names[n])],
         blocks |-> [i \in 1..Len(blocks) |->
                       [pos |-> << blocks[i].x, blocks[i].y, blocks[i].z >>,
                        state |-> PaletteIndex(names, blocks[i].blockName)]],
         entities |-> << >>]

gzipCompress(data) == [gzip |-> data]

ZipEntry(name, data) == [name |-> name, data |-> data]
createZip(entries) == [zip |-> entries]

toNbt(blocks) ==
    LET m == normalizeAndMeasure(blocks)
    IN  gzipCompress(writeStructureNbt(m.blocks, m.sizeX, m.sizeY, m.sizeZ))

\* The placement lists the builders hand to the serializer: the two halves
\* for suppress_pairs, one list otherwise.
BuiltBlocks(img, opt) ==
    IF opt.buildMode = "suppress_pairs_ew"
    THEN applySupport(buildSuppressPairsEWBlocks(img, opt), opt)
    ELSE IF opt.buildMode = "suppress_dual_layer"
    THEN applySupport(buildSuppressDualLayerBlocks(img, opt), opt)
    ELSE applySupport(applyStaircaseVariant(buildStaircaseBlocks(img, opt), opt.buildMode,
                                            img, opt), opt)

Placements(img, opt) ==
    IF opt.buildMode = "suppress_pairs" THEN buildSuppressPairsBlocks(img, opt)
    ELSE << BuiltBlocks(img, opt) >>

\* buildSuppressPairs from the two halves on
buildSuppressPairs(halves, opt) ==
    [data |-> createZip(<< ZipEntry(<< opt.baseName, "-odd_rows.nbt" >>, toNbt(halves[1])),
                           ZipEntry(<< opt.baseName, "-even_rows.nbt" >>,
                                    toNbt(halves[2])) >>),
     isZip |-> TRUE]

\* convertToNbt from the placement lists on
Serialize(lists, opt) ==
    IF opt.buildMode = "suppress_pairs" THEN buildSuppressPairs(lists, opt)
    ELSE [data |-> toNbt(lists[1]), isZip |-> FALSE]

convertToNbt(img, opt) == Serialize(Placements(img, opt), opt)

(***************************************************************************)
(* Presets: preset.blocks as the sequence of the blocks of indices 1..61,  *)
(* << >> being the empty string.                                           *)
(***************************************************************************)
DefaultPresetBlocks ==
    << <<"grass_block">>, <<"birch_pressure_plate">>, <<"white_candle">>,
       <<"redstone_block">>, <<"ice">>, <<"heavy_weighted_pressure_plate">>,
       <<"pink_petals">>, <<"white_carpet">>, <<"clay">>,
       <<"jungle_pressure_plate">>, <<"stone_pressure_plate">>, <<"oak_", "leaves", "[", "waterlogged", "=", "true", "]">>,
       <<"oak_pressure_plate">>, <<"pale_oak_pressure_plate">>, <<"orange_carpet">>,
       <<"magenta_carpet">>, <<"light_blue_carpet">>, <<"yellow_carpet">>,
       <<"lime_carpet">>, <<"pink_carpet">>, <<"gray_carpet">>,
       <<"light_gray_carpet">>, <<"cyan_carpet">>, <<"purple_carpet">>,
       <<"blue_carpet">>, <<"brown_carpet">>, <<"green_carpet">>,
       <<"red_carpet">>, <<"black_carpet">>, <<"light_weighted_pressure_plate">>,
       <<"prismarine_bricks">>, <<"lapis_block">>, <<"emerald_block">>,
       <<"spruce_pressure_plate">>, <<"crimson_roots">>, <<"cherry_pressure_plate">>,
       <<"resin_clump", "[", "south", "=", "true", "]">>, <<"magenta_terracotta">>, <<"light_blue_terracotta">>,
       <<"yellow_terracotta">>, <<"lime_terracotta">>, <<"pink_terracotta">>,
       <<"gray_terracotta">>, <<"light_gray_terracotta">>, <<"mud">>,
       <<"purple_terracotta">>, <<"blue_terracotta">>, <<"brown_terracotta">>,
       <<"green_terracotta">>, <<"decorated_pot">>, <<"black_terracotta">>,
       <<"crimson_nylium">>, <<"crimson_pressure_plate">>, <<"crimson_hyphae">>,
       <<"warped_nylium">>, <<"warped_pressure_plate">>, <<"warped_hyphae">>,
       <<"warped_wart_block">>, <<"deepslate">>, <<"raw_iron_block">>,
       <<"glow_lichen", "[", "south", "=", "true", "]">> >>

CarpetsPresetBlocks ==
    << << >>, << >>, << >>,
       << >>, << >>, << >>,
       << >>, <<"white_carpet">>, << >>,
       << >>, << >>, << >>,
       << >>, << >>, <<"orange_carpet">>,
       <<"magenta_carpet">>, <<"light_blue_carpet">>, <<"yellow_carpet">>,
       <<"lime_carpet">>, <<"pink_carpet">>, <<"gray_carpet">>,
       <<"light_gray_carpet">>, <<"cyan_carpet">>, <<"purple_carpet">>,
       <<"blue_carpet">>, <<"brown_carpet">>, <<"green_carpet">>,
       <<"red_carpet">>, <<"black_carpet">>, << >>,
       << >>, << >>, << >>,
       << >>, << >>, << >>,
       << >>, << >>, << >>,
       << >>, << >>, << >>,
       << >>, << >>, << >>,
       << >>, << >>, << >>,
       << >>, << >>, << >>,
       << >>, << >>, << >>,
       << >>, << >>, << >>,
       << >>, << >>, << >>,
       << >> >>

FullblockPresetBlocks ==
    << <<"grass_block">>, <<"sandstone">>, <<"mushroom_stem">>,
       <<"tnt">>, <<"ice">>, <<"iron_block">>,
       <<"oak_", "leaves">>, <<"white_concrete">>, <<"clay">>,
       <<"granite">>, <<"andesite">>, <<"oak_", "leaves", "[", "waterlogged", "=", "true", "]">>,
       <<"oak_planks">>, <<"diorite">>, <<"orange_concrete">>,
       <<"magenta_concrete">>, <<"light_blue_concrete">>, <<"yellow_concrete">>,
       <<"lime_concrete">>, <<"pink_concrete">>, <<"gray_concrete">>,
       <<"light_gray_concrete">>, <<"cyan_concrete">>, <<"purple_concrete">>,
       <<"blue_concrete">>, <<"brown_concrete">>, <<"green_concrete">>,
       <<"red_concrete">>, <<"black_concrete">>, <<"gold_block">>,
       <<"prismarine_bricks">>, <<"lapis_block">>, <<"emerald_block">>,
       <<"spruce_planks">>, <<"netherrack">>, <<"white_terracotta">>,
       <<"orange_terracotta">>, <<"magenta_terracotta">>, <<"light_blue_terracotta">>,
       <<"yellow_terracotta">>, <<"lime_terracotta">>, <<"pink_terracotta">>,
       <<"gray_terracotta">>, <<"light_gray_terracotta">>, <<"mud">>,
       <<"purple_terracotta">>, <<"blue_terracotta">>, <<"brown_terracotta">>,
       <<"green_terracotta">>, <<"decorated_pot">>, <<"black_terracotta">>,
       <<"crimson_nylium">>, <<"crimson_planks">>, <<"crimson_hyphae">>,
       <<"warped_nylium">>, <<"warped_planks">>, <<"warped_hyphae">>,
       <<"warped_wart_block">>, <<"deepslate">>, <<"raw_iron_block">>,
       <<"verdant_froglight">> >>

(***************************************************************************)
(* computeMaterialCounts                                                   *)
(***************************************************************************)
\* mutant: strips the prefix only
toDisplayNameMutKeepsPersistent(blockName) ==
    IF blockName # << >> /\ Head(blockName) = "minecraft:" THEN Tail(blockName)
    ELSE blockName

\* Strip minecraft: prefix and persistent=true for display
toDisplayName(blockName) ==
    LET s == IF blockName # << >> /\ Head(blockName) = "minecraft:"
             THEN Tail(blockName) ELSE blockName
        bracketIdx == IndexOf(s, "[")
    IN  IF bracketIdx = 0 THEN s
        ELSE LET name == SubSeq(s, 1, bracketIdx - 1)
                 parts == SplitOn(InsideBrackets(s, bracketIdx), ",")
                 props == SelectSeq(parts,
                            LAMBDA p : Trim(p) # << "persistent", "=", "true" >>)
             IN  IF Len(props) > 0
                 THEN name \o << "[" >> \o Join(props, << "," >>) \o << "]" >>
                 ELSE name

\* countBlocks on empty counts: display name -> number of voxels
CountNames(names) ==
    [name \in SeqToSet(names) |-> Cardinality({i \in DOMAIN names : names[i] = name})]

countBlocks(blocks) ==
    CountNames([i \in DOMAIN blocks |-> toDisplayName(blocks[i].blockName)])

CountOf(counts, name) == IF name \in DOMAIN counts THEN counts[name] ELSE 0

\* Max per-step counts, stepCounts holding the counts of the steps that
\* placed something
MaxCounts(stepCounts) ==
    [name \in UNION {DOMAIN stepCounts[n] : n \in DOMAIN stepCounts} |->
        Max({CountOf(stepCounts[n], name) : n \in DOMAIN stepCounts})]

StepCounts(steps, opt) ==
    MaxCounts([n \in {k \in DOMAIN steps : steps[k] # << >>} |->
                  countBlocks(applySupport(steps[n], opt))])

HalvesCounts(halves) == countBlocks(halves[1] \o halves[2])

computeMaterialCounts(img, opt) ==
    IF opt.buildMode = "suppress_pairs"
    THEN HalvesCounts(buildSuppressPairsBlocks(img, opt))
    ELSE IF opt.buildMode = "suppress_pairs_ew"
    THEN StepCounts(buildSuppressPairsEWBlocksByStep(img, opt), opt)
    ELSE countBlocks(BuiltBlocks(img, opt))

(***************************************************************************)
(* The page: what it derives from its state                                *)
(***************************************************************************)
\* b.split("[")[0] for every block b of BASE_COLORS.slice(1)
PaletteBlockNames ==
    { <<"grass_block">>, <<"slime_block">>, <<"sand">>, <<"sandstone">>,
      <<"birch_planks">>, <<"glowstone">>, <<"end_stone">>, <<"end_stone_bricks">>,
      <<"bone_block">>, <<"scaffolding">>, <<"candle">>, <<"suspicious_sand">>,
      <<"birch_log">>, <<"birch_stripped_log">>, <<"birch_wood">>,
      <<"birch_stripped_wood">>, <<"birch_sign">>, <<"birch_pressure_plate">>,
      <<"birch_trapdoor">>, <<"birch_stairs">>, <<"birch_slab">>,
      <<"birch_fence_gate">>, <<"birch_fence">>, <<"birch_door">>, <<"turtle_egg">>,
      <<"ochre_froglight">>, <<"sandstone_slab">>, <<"sandstone_stairs">>,
      <<"sandstone_wall">>, <<"cut_sandstone">>, <<"cut_sandstone_slab">>,
      <<"chiseled_sandstone">>, <<"smooth_sandstone">>, <<"smooth_sandstone_slab">>,
      <<"smooth_sandstone_stairs">>, <<"end_stone_brick_slab">>,
      <<"end_stone_brick_stairs">>, <<"end_stone_brick_wall">>, <<"mushroom_stem">>,
      <<"cobweb">>, <<"white_candle">>, <<"tnt">>, <<"redstone_block">>, <<"lava">>,
      <<"fire">>, <<"ice">>, <<"packed_ice">>, <<"blue_ice">>, <<"frosted_ice">>,
      <<"iron_block">>, <<"iron_door">>, <<"iron_trapdoor">>, <<"iron_bars">>,
      <<"anvil">>, <<"brewing_stand">>, <<"heavy_weighted_pressure_plate">>,
      <<"lantern">>, <<"grindstone">>, <<"lodestone">>, <<"heavy_core">>,
      <<"pale_oak_", "leaves">>, <<"closed_eyeblossom">>, <<"oak_", "leaves">>,
      <<"spruce_", "leaves">>, <<"birch_", "leaves">>, <<"jungle_", "leaves">>,
      <<"acacia_", "leaves">>, <<"dark_oak_", "leaves">>, <<"lily_pad">>, <<"cactus">>,
      <<"vines">>, <<"sugar_cane">>, <<"fern">>, <<"short_grass">>, <<"tall_grass">>,
      <<"pink_petals">>, <<"white_wool">>, <<"snow_block">>, <<"snow">>,
      <<"white_carpet">>, <<"white_concrete">>, <<"white_concrete_powder">>,
      <<"white_stained_glass">>, <<"white_glazed_terracotta">>, <<"powder_snow">>,
      <<"white_shulker_box">>, <<"clay">>, <<"dirt">>, <<"coarse_dirt">>,
      <<"jungle_planks">>, <<"granite">>, <<"polished_granite">>, <<"farmland">>,
      <<"jungle_slab">>, <<"jungle_stairs">>, <<"packed_mud">>, <<"dirt_path">>,
      <<"granite_slab">>, <<"granite_stairs">>, <<"granite_wall">>,
      <<"polished_granite_slab">>, <<"polished_granite_stairs">>, <<"jungle_log">>,
      <<"jungle_stripped_log">>, <<"jungle_wood">>, <<"jungle_stripped_wood">>,
      <<"jungle_sign">>, <<"jungle_pressure_plate">>, <<"jungle_trapdoor">>,
      <<"jungle_fence_gate">>, <<"jungle_fence">>, <<"jungle_door">>, <<"jukebox">>,
      <<"brown_mushroom_block">>, <<"rooted_dirt">>, <<"hanging_roots">>,
      <<"cobblestone">>, <<"stone">>, <<"stone_bricks">>, <<"andesite">>,
      <<"polished_andesite">>, <<"gravel">>, <<"furnace">>, <<"dispenser">>,
      <<"dropper">>, <<"observer">>, <<"hopper">>, <<"cobblestone_stairs">>,
      <<"stone_slab">>, <<"cobblestone_slab">>, <<"stone_brick_slab">>,
      <<"stonecutter">>, <<"spawner">>, <<"ender_chest">>, <<"cauldron">>,
      <<"stone_stairs">>, <<"bedrock">>, <<"gold_ore">>, <<"iron_ore">>,
      <<"coal_ore">>, <<"lapis_lazuli_ore">>, <<"diamond_ore">>,
      <<"mossy_cobblestone">>, <<"mossy_cobblestone_slab">>,
      <<"mossy_cobblestone_stairs">>, <<"mossy_cobblestone_wall">>,
      <<"stone_pressure_plate">>, <<"redstone_ore">>, <<"emerald_ore">>,
      <<"smooth_stone">>, <<"smooth_stone_slab">>, <<"smoker">>, <<"blast_furnace">>,
      <<"cobblestone_wall">>, <<"stone_brick_stairs">>, <<"stone_brick_wall">>,
      <<"mossy_stone_bricks">>, <<"mossy_stone_brick_slab">>,
      <<"mossy_stone_brick_stairs">>, <<"mossy_stone_brick_wall">>,
      <<"cracked_stone_bricks">>, <<"chiseled_stone_bricks">>, <<"andesite_slab">>,
      <<"andesite_stairs">>, <<"andesite_wall">>, <<"polished_andesite_slab">>,
      <<"polished_andesite_stairs">>, <<"copper_ore">>, <<"crafter">>,
      <<"pale_oak_wood">>, <<"pale_oak_log">>, <<"water">>, <<"cherry_", "leaves">>,
      <<"mangrove_", "leaves">>, <<"azalea_", "leaves">>,
      <<"flowering_azalea_", "leaves">>, <<"oak_planks">>, <<"oak_slab">>,
      <<"oak_stairs">>, <<"oak_sign">>, <<"oak_pressure_plate">>, <<"oak_trapdoor">>,
      <<"oak_fence">>, <<"oak_fence_gate">>, <<"oak_door">>, <<"crafting_table">>,
      <<"bookshelf">>, <<"note_block">>, <<"chest">>, <<"trapped_chest">>,
      <<"daylight_detector">>, <<"loom">>, <<"composter">>, <<"lectern">>,
      <<"smithing_table">>, <<"fletching_table">>, <<"beehive">>, <<"oak_wood">>,
      <<"oak_stripped_log">>, <<"oak_stripped_wood">>, <<"barrel">>,
      <<"cartography_table">>, <<"chiseled_bookshelf">>, <<"petrified_oak_slab">>,
      <<"bamboo_sapling">>, <<"dead_bush">>, <<"quartz_block">>, <<"smooth_quartz">>,
      <<"chiseled_quartz_block">>, <<"quartz_pillar">>, <<"quartz_slab">>,
      <<"quartz_stairs">>, <<"diorite">>, <<"polished_diorite">>, <<"sea_lantern">>,
      <<"target">>, <<"pale_oak_planks">>, <<"diorite_slab">>, <<"diorite_stairs">>,
      <<"diorite_wall">>, <<"polished_diorite_slab">>, <<"polished_diorite_stairs">>,
      <<"smooth_quartz_slab">>, <<"smooth_quartz_stairs">>, <<"pale_oak_slab">>,
      <<"pale_oak_stairs">>, <<"pale_oak_fence">>, <<"pale_oak_fence_gate">>,
      <<"pale_oak_door">>, <<"pale_oak_trapdoor">>, <<"pale_oak_sign">>,
      <<"pale_oak_pressure_plate">>, <<"pale_oak_stripped_log">>,
      <<"pale_oak_stripped_wood">>, <<"acacia_planks">>, <<"acacia_slab">>,
      <<"acacia_stairs">>, <<"acacia_log">>, <<"pumpkin">>, <<"jack_o_lantern">>,
      <<"terracotta">>, <<"red_sand">>, <<"red_sandstone">>, <<"orange_wool">>,
      <<"orange_carpet">>, <<"orange_concrete">>, <<"orange_glazed_terracotta">>,
      <<"honey_block">>, <<"honeycomb_block">>, <<"lightning_rod">>,
      <<"copper_block">>, <<"acacia_sign">>, <<"acacia_trapdoor">>,
      <<"acacia_pressure_plate">>, <<"acacia_fence_gate">>, <<"acacia_fence">>,
      <<"acacia_door">>, <<"acacia_stripped_log">>, <<"acacia_stripped_wood">>,
      <<"orange_shulker_box">>, <<"orange_stained_glass">>,
      <<"orange_concrete_powder">>, <<"orange_candle">>, <<"carved_pumpkin">>,
      <<"red_sandstone_slab">>, <<"red_sandstone_stairs">>, <<"red_sandstone_wall">>,
      <<"cut_red_sandstone">>, <<"cut_red_sandstone_slab">>,
      <<"chiseled_red_sandstone">>, <<"smooth_red_sandstone">>,
      <<"smooth_red_sandstone_slab">>, <<"smooth_red_sandstone_stairs">>,
      <<"raw_copper_block">>, <<"creaking_heart">>, <<"open_eyeblossom">>,
      <<"waxed_copper_block">>, <<"cut_copper">>, <<"cut_copper_slab">>,
      <<"cut_copper_stairs">>, <<"waxed_cut_copper">>, <<"waxed_cut_copper_slab">>,
      <<"waxed_cut_copper_stairs">>, <<"magenta_wool">>, <<"magenta_carpet">>,
      <<"magenta_concrete">>, <<"magenta_glazed_terracotta">>, <<"purpur_block">>,
      <<"purpur_pillar">>, <<"purpur_slab">>, <<"purpur_stairs">>,
      <<"magenta_shulker_box">>, <<"magenta_stained_glass">>,
      <<"magenta_concrete_powder">>, <<"magenta_candle">>, <<"light_blue_wool">>,
      <<"light_blue_carpet">>, <<"light_blue_concrete">>,
      <<"light_blue_glazed_terracotta">>, <<"light_blue_shulker_box">>,
      <<"light_blue_stained_glass">>, <<"light_blue_concrete_powder">>,
      <<"light_blue_candle">>, <<"yellow_wool">>, <<"yellow_carpet">>,
      <<"yellow_concrete">>, <<"yellow_glazed_terracotta">>, <<"sponge">>,
      <<"wet_sponge">>, <<"hay_block">>, <<"bee_nest">>, <<"bamboo_planks">>,
      <<"yellow_shulker_box">>, <<"yellow_stained_glass">>,
      <<"yellow_concrete_powder">>, <<"yellow_candle">>, <<"lime_wool">>,
      <<"lime_carpet">>, <<"lime_concrete">>, <<"lime_glazed_terracotta">>,
      <<"melon">>, <<"lime_shulker_box">>, <<"lime_stained_glass">>,
      <<"lime_concrete_powder">>, <<"lime_candle">>, <<"pink_wool">>,
      <<"pink_carpet">>, <<"pink_concrete">>, <<"pink_glazed_terracotta">>,
      <<"brain_coral_block">>, <<"pearlescent_froglight">>, <<"pink_shulker_box">>,
      <<"pink_stained_glass">>, <<"pink_concrete_powder">>, <<"pink_candle">>,
      <<"gray_wool">>, <<"gray_carpet">>, <<"gray_concrete">>,
      <<"gray_glazed_terracotta">>, <<"tinted_glass">>, <<"acacia_wood">>,
      <<"gray_shulker_box">>, <<"gray_stained_glass">>, <<"gray_concrete_powder">>,
      <<"gray_candle">>, <<"light_gray_wool">>, <<"light_gray_carpet">>,
      <<"light_gray_concrete">>, <<"light_gray_glazed_terracotta">>,
      <<"structure_block">>, <<"jigsaw_block">>, <<"pale_moss_block">>,
      <<"pale_moss_carpet">>, <<"light_gray_shulker_box">>,
      <<"light_gray_stained_glass">>, <<"light_gray_concrete_powder">>,
      <<"light_gray_candle">>, <<"cyan_wool">>, <<"cyan_carpet">>, <<"cyan_concrete">>,
      <<"cyan_glazed_terracotta">>, <<"prismarine">>, <<"sculk_sensor">>,
      <<"warped_roots">>, <<"nether_sprouts">>, <<"twisting_vines">>,
      <<"prismarine_slab">>, <<"prismarine_stairs">>, <<"prismarine_wall">>,
      <<"calibrated_sculk_sensor">>, <<"warped_fungus">>, <<"cyan_shulker_box">>,
      <<"cyan_stained_glass">>, <<"cyan_concrete_powder">>, <<"cyan_candle">>,
      <<"purple_wool">>, <<"purple_carpet">>, <<"purple_concrete">>,
      <<"purple_glazed_terracotta">>, <<"mycelium">>, <<"chorus_plant">>,
      <<"chorus_flower">>, <<"budding_amethyst">>, <<"amethyst_block">>,
      <<"shulker_box">>, <<"bubble_coral_block">>, <<"purple_shulker_box">>,
      <<"purple_stained_glass">>, <<"purple_concrete_powder">>, <<"purple_candle">>,
      <<"blue_wool">>, <<"blue_carpet">>, <<"blue_concrete">>,
      <<"blue_glazed_terracotta">>, <<"tube_coral_block">>, <<"blue_shulker_box">>,
      <<"blue_stained_glass">>, <<"blue_concrete_powder">>, <<"blue_candle">>,
      <<"dark_oak_planks">>, <<"dark_oak_slab">>, <<"dark_oak_stairs">>,
      <<"dark_oak_log">>, <<"dark_oak_wood">>, <<"spruce_log">>, <<"soul_sand">>,
      <<"soul_soil">>, <<"brown_wool">>, <<"brown_carpet">>, <<"brown_concrete">>,
      <<"brown_glazed_terracotta">>, <<"brown_mushroom">>, <<"command_block">>,
      <<"dark_oak_stripped_log">>, <<"dark_oak_stripped_wood">>, <<"dark_oak_sign">>,
      <<"dark_oak_pressure_plate">>, <<"dark_oak_trapdoor">>,
      <<"dark_oak_fence_gate">>, <<"dark_oak_fence">>, <<"dark_oak_door">>,
      <<"brown_shulker_box">>, <<"brown_stained_glass">>, <<"brown_concrete_powder">>,
      <<"brown_candle">>, <<"leaf_litter">>, <<"green_wool">>, <<"green_carpet">>,
      <<"green_concrete">>, <<"green_glazed_terracotta">>, <<"end_portal_frame">>,
      <<"moss_block">>, <<"moss_carpet">>, <<"dried_kelp_block">>, <<"sea_pickle">>,
      <<"green_shulker_box">>, <<"green_stained_glass">>, <<"green_concrete_powder">>,
      <<"green_candle">>, <<"red_wool">>, <<"red_carpet">>, <<"red_concrete">>,
      <<"red_glazed_terracotta">>, <<"bricks">>, <<"brick_slab">>, <<"brick_stairs">>,
      <<"brick_wall">>, <<"nether_wart_block">>, <<"nether_wart">>,
      <<"enchanting_table">>, <<"red_mushroom_block">>, <<"red_mushroom">>,
      <<"shroomlight">>, <<"mangrove_planks">>, <<"mangrove_log">>, <<"sniffer_egg">>,
      <<"mangrove_slab">>, <<"mangrove_stairs">>, <<"mangrove_fence">>,
      <<"mangrove_fence_gate">>, <<"mangrove_door">>, <<"mangrove_trapdoor">>,
      <<"mangrove_sign">>, <<"mangrove_pressure_plate">>, <<"mangrove_stripped_log">>,
      <<"mangrove_wood">>, <<"mangrove_stripped_wood">>, <<"red_shulker_box">>,
      <<"red_stained_glass">>, <<"red_concrete_powder">>, <<"red_candle">>,
      <<"fire_coral_block">>, <<"black_wool">>, <<"black_carpet">>,
      <<"black_concrete">>, <<"black_glazed_terracotta">>, <<"obsidian">>,
      <<"coal_block">>, <<"dragon_egg">>, <<"blackstone">>, <<"polished_blackstone">>,
      <<"polished_blackstone_bricks">>, <<"netherite_block">>, <<"ancient_debris">>,
      <<"crying_obsidian">>, <<"respawn_anchor">>, <<"sculk">>, <<"sculk_catalyst">>,
      <<"sculk_shrieker">>, <<"sculk_vein">>, <<"basalt">>, <<"polished_basalt">>,
      <<"smooth_basalt">>, <<"black_shulker_box">>, <<"black_stained_glass">>,
      <<"black_concrete_powder">>, <<"black_candle">>, <<"gold_block">>,
      <<"light_weighted_pressure_plate">>, <<"bell">>, <<"raw_gold_block">>,
      <<"diamond_block">>, <<"prismarine_bricks">>, <<"dark_prismarine">>,
      <<"conduit">>, <<"beacon">>, <<"lapis_block">>, <<"emerald_block">>,
      <<"podzol">>, <<"spruce_planks">>, <<"spruce_slab">>, <<"spruce_stairs">>,
      <<"spruce_wood">>, <<"spruce_fence">>, <<"spruce_fence_gate">>,
      <<"spruce_door">>, <<"spruce_trapdoor">>, <<"spruce_pressure_plate">>,
      <<"spruce_sign">>, <<"oak_log">>, <<"campfire">>, <<"mangrove_roots">>,
      <<"muddy_mangrove_roots">>, <<"spruce_stripped_log">>,
      <<"spruce_stripped_wood">>, <<"soul_campfire">>, <<"netherrack">>,
      <<"nether_bricks">>, <<"nether_brick_slab">>, <<"nether_brick_stairs">>,
      <<"nether_brick_fence">>, <<"nether_brick_wall">>, <<"red_nether_bricks">>,
      <<"nether_gold_ore">>, <<"nether_quartz_ore">>, <<"magma_block">>,
      <<"crimson_roots">>, <<"crimson_fungus">>, <<"weeping_vines">>,
      <<"chiseled_nether_bricks">>, <<"cracked_nether_bricks">>,
      <<"red_nether_brick_slab">>, <<"red_nether_brick_stairs">>,
      <<"red_nether_brick_wall">>, <<"white_terracotta">>, <<"calcite">>,
      <<"cherry_planks">>, <<"cherry_slab">>, <<"cherry_stairs">>, <<"cherry_fence">>,
      <<"cherry_fence_gate">>, <<"cherry_door">>, <<"cherry_trapdoor">>,
      <<"cherry_log">>, <<"cherry_sign">>, <<"cherry_pressure_plate">>,
      <<"orange_terracotta">>, <<"redstone_lamp">>, <<"resin_block">>,
      <<"resin_bricks">>, <<"resin_brick_slab">>, <<"resin_brick_stairs">>,
      <<"resin_brick_wall">>, <<"resin_clump">>, <<"magenta_terracotta">>,
      <<"light_blue_terracotta">>, <<"yellow_terracotta">>, <<"lime_terracotta">>,
      <<"pink_terracotta">>, <<"cherry_wood">>, <<"gray_terracotta">>, <<"tuff">>,
      <<"tuff_bricks">>, <<"polished_tuff">>, <<"tuff_slab">>, <<"tuff_brick_slab">>,
      <<"tuff_stairs">>, <<"tuff_brick_stairs">>, <<"chiseled_tuff">>,
      <<"chiseled_tuff_bricks">>, <<"tuff_wall">>, <<"tuff_brick_wall">>,
      <<"polished_tuff_slab">>, <<"polished_tuff_stairs">>, <<"polished_tuff_wall">>,
      <<"light_gray_terracotta">>, <<"exposed_copper">>, <<"waxed_exposed_copper">>,
      <<"exposed_cut_copper">>, <<"mud_bricks">>, <<"mud_brick_slab">>,
      <<"mud_brick_stairs">>, <<"mud_brick_wall">>, <<"exposed_copper_trapdoor">>,
      <<"exposed_cut_copper_slab">>, <<"exposed_cut_copper_stairs">>,
      <<"waxed_exposed_cut_copper">>, <<"waxed_exposed_cut_copper_slab">>,
      <<"waxed_exposed_cut_copper_stairs">>, <<"cyan_terracotta">>, <<"mud">>,
      <<"purple_terracotta">>, <<"blue_terracotta">>, <<"brown_terracotta">>,
      <<"dripstone_block">>, <<"pointed_dripstone">>, <<"green_terracotta">>,
      <<"red_terracotta">>, <<"decorated_pot">>, <<"black_terracotta">>,
      <<"crimson_nylium">>, <<"crimson_planks">>, <<"crimson_stem">>,
      <<"stripped_crimson_stem">>, <<"crimson_slab">>, <<"crimson_stairs">>,
      <<"crimson_fence">>, <<"crimson_fence_gate">>, <<"crimson_door">>,
      <<"crimson_trapdoor">>, <<"crimson_sign">>, <<"crimson_pressure_plate">>,
      <<"crimson_hyphae">>, <<"stripped_crimson_hyphae">>, <<"warped_nylium">>,
      <<"oxidized_copper">>, <<"waxed_oxidized_copper">>, <<"oxidized_cut_copper">>,
      <<"oxidized_copper_trapdoor">>, <<"oxidized_cut_copper_slab">>,
      <<"oxidized_cut_copper_stairs">>, <<"waxed_oxidized_cut_copper">>,
      <<"waxed_oxidized_cut_copper_slab">>, <<"waxed_oxidized_cut_copper_stairs">>,
      <<"warped_planks">>, <<"warped_stem">>, <<"stripped_warped_stem">>,
      <<"warped_slab">>, <<"warped_stairs">>, <<"warped_fence">>,
      <<"warped_fence_gate">>, <<"warped_door">>, <<"warped_trapdoor">>,
      <<"warped_sign">>, <<"warped_pressure_plate">>, <<"weathered_copper">>,
      <<"waxed_weathered_copper">>, <<"weathered_cut_copper">>,
      <<"weathered_cut_copper_slab">>, <<"weathered_cut_copper_stairs">>,
      <<"waxed_weathered_cut_copper">>, <<"waxed_weathered_cut_copper_slab">>,
      <<"waxed_weathered_cut_copper_stairs">>, <<"warped_hyphae">>,
      <<"stripped_warped_hyphae">>, <<"warped_wart_block">>, <<"deepslate">>,
      <<"cobbled_deepslate">>, <<"deepslate_bricks">>, <<"deepslate_tiles">>,
      <<"polished_deepslate">>, <<"chiseled_deepslate">>, <<"cobbled_deepslate_slab">>,
      <<"deepslate_brick_slab">>, <<"deepslate_tile_slab">>,
      <<"reinforced_deepslate">>, <<"cobbled_deepslate_stairs">>,
      <<"cobbled_deepslate_wall">>, <<"deepslate_brick_stairs">>,
      <<"deepslate_brick_wall">>, <<"deepslate_tile_stairs">>,
      <<"deepslate_tile_wall">>, <<"cracked_deepslate_bricks">>,
      <<"cracked_deepslate_tiles">>, <<"deepslate_gold_ore">>,
      <<"deepslate_iron_ore">>, <<"deepslate_coal_ore">>, <<"deepslate_lapis_ore">>,
      <<"deepslate_diamond_ore">>, <<"deepslate_redstone_ore">>,
      <<"deepslate_emerald_ore">>, <<"deepslate_copper_ore">>, <<"raw_iron_block">>,
      <<"glow_lichen">>, <<"verdant_froglight">> }

\* the usedBaseColors memo of the page: palette matches only
usedBaseColorsOf(img, valid) ==
    IF img = NoImage \/ ~valid THEN {}
    ELSE {LookupGet(KeyOf(p)).baseIndex :
            p \in {q \in PixelValues(img) : q.a # 0 /\ IsMatch(LookupGet(KeyOf(q)))}}

fillerIsNoneColorOf(filler) ==
    LET bracketIdx == IndexOf(filler, "[")
        stripped == IF bracketIdx = 0 THEN filler ELSE SubSeq(filler, 1, bracketIdx - 1)
    IN  stripped \notin PaletteBlockNames

\* mutant: skips palette index 1
missingBlocksOfMutSkipFirst(img, valid, blocks) ==
    LET used == usedBaseColorsOf(img, valid)
    IN  IF ~valid \/ used = {} THEN {}
        ELSE {idx \in used : idx > 1 /\ blocks[idx] = << >>}

missingBlocksOf(img, valid, blocks) ==
    LET used == usedBaseColorsOf(img, valid)
    IN  IF ~valid \/ used = {} THEN {}
        ELSE {idx \in used : idx > 0 /\ blocks[idx] = << >>}

imageHasNonFlatShades(img, cc) ==
    \E p \in PixelValues(img) :
        /\ p.a # 0
        /\ ~CustomHas(cc, KeyOf(p))
        /\ IsMatch(LookupGet(KeyOf(p)))
        /\ LookupGet(KeyOf(p)).shade # 1

\* scanSuppressedPixels(imageData, customColors, false) > 0: some transparent
\* pixel has, as the first opaque pixel south of it, a dark or darkest palette
\* pixel that is no custom colour - that is, such a pixel has a transparent
\* pixel right north of it.
scanSuppressedPixelsDetect(img, cc) ==
    LET cand == (DOMAIN img.px) \cup {i + MapSize : i \in DOMAIN img.px}
    IN  \E i \in cand :
            /\ i >= MapSize /\ i < MapSize * MapSize
            /\ PixelAtIndex(img, i).a # 0
            /\ PixelAtIndex(img, i - MapSize).a = 0
            /\ ~CustomHas(cc, KeyOf(PixelAtIndex(img, i)))
            /\ LookupGet(KeyOf(PixelAtIndex(img, i))).shade \in {0, 3}

hasNonFlatShadesOf(img, cc) == img # NoImage /\ imageHasNonFlatShades(img, cc)
hasSuppressPatternOf(img, cc) ==
    img # NoImage /\ hasNonFlatShadesOf(img, cc) /\ scanSuppressedPixelsDetect(img, cc)

\* The effect "auto-select mode when image changes", run when imageData (a new
\* object at every load), hasNonFlatShades or hasSuppressPattern has changed.
StartsWithStaircase(mode) ==
    mode \in {"staircase_classic", "staircase_northline", "staircase_southline",
              "staircase_valley", "staircase_cancer"}
AutoBuildMode(prev, img, cc) ==
    IF img = NoImage THEN prev
    ELSE IF ~hasNonFlatShadesOf(img, cc) THEN "flat"
    ELSE IF hasSuppressPatternOf(img, cc)
    THEN (IF StartsWithStaircase(prev) \/ prev = "flat" THEN "suppress_pairs_ew" ELSE prev)
    ELSE (IF prev = "flat" THEN "staircase_classic" ELSE prev)

\* The effect that resets a support mode the image or the filler rules out.
AutoSupportMode(prev, img, valid, cc, filler) ==
    IF img = NoImage THEN prev
    ELSE IF prev = "steps" /\ ~hasNonFlatShadesOf(img, cc) THEN "none"
    ELSE IF prev = "water" /\ (12 \notin usedBaseColorsOf(img, valid)
                               \/ ~fillerIsNoneColorOf(filler)) THEN "none"
    ELSE prev

\* handleFile, "convert unsupported colors to nearest available palette color"
\* mutant: leaves the blue channel out of the distance
SquaredDistanceMutNoBlue(p, key) ==
    (p.r - key[1]) * (p.r - key[1]) + (p.g - key[2]) * (p.g - key[2])

SquaredDistance(p, key) ==
    (p.r - key[1]) * (p.r - key[1]) + (p.g - key[2]) * (p.g - key[2])
      + (p.b - key[3]) * (p.b - key[3])
\* The first key of keys at the distance bestDist of p
NearestAt(p, keys, bestDist) ==
    keys[Min({n \in DOMAIN keys : SquaredDistance(p, keys[n]) = bestDist})]
NearestIn(p, keys) ==
    NearestAt(p, keys, Min({SquaredDistance(p, keys[n]) : n \in DOMAIN keys}))
NearestColor(p) == NearestIn(p, LookupKeys)
NeedsConversion(p, cc) ==
    p.a # 0 /\ ~IsMatch(LookupGet(KeyOf(p))) /\ ~CustomHas(cc, KeyOf(p))
Recolour(p, best) == [r |-> best[1], g |-> best[2], b |-> best[3], a |-> p.a]
ConvertPixel(p, cc) ==
    IF NeedsConversion(p, cc) THEN Recolour(p, NearestColor(p)) ELSE p
ConvertUnsupported(img, cc) ==
    [img EXCEPT !.bg = ConvertPixel(img.bg, cc),
                !.px = [i \in DOMAIN img.px |-> ConvertPixel(img.px[i], cc)]]
convertedColors(img, cc) ==
    {KeyOf(p) : p \in {q \in PixelValues(img) : NeedsConversion(q, cc)}}
ConvertedMessage(n) == [kind |-> "converted", count |-> n]

\* img.onload of handleFile, with customColors and convertUnsupported as its
\* closure holds them: what it sets imageData, imageValid and paletteErrors to.
OnloadRechecked(data, cc, fixed, recheck) ==
    [imageData |-> fixed, imageValid |-> recheck.valid,
     paletteErrors |->
        IF recheck.valid
        THEN << ConvertedMessage(Cardinality(convertedColors(data, cc))) >>
        ELSE recheck.errors]

OnloadRepaired(data, cc, fixed) == OnloadRechecked(data, cc, fixed, validatePng(fixed, cc))

OnloadChecked(data, cc, convert, result) ==
    IF result.valid
    THEN [imageData |-> data, imageValid |-> TRUE, paletteErrors |-> << >>]
    ELSE IF (\E i \in DOMAIN result.errors : result.errors[i].kind = "size") \/ ~convert
    THEN [imageData |-> NoImage, imageValid |-> FALSE, paletteErrors |-> result.errors]
    ELSE OnloadRepaired(data, cc, ConvertUnsupported(data, cc))

OnloadOutcome(data, cc, convert) ==
    OnloadChecked(data, cc, convert, validatePng(data, cc))

(***************************************************************************)
(* Input pools                                                             *)
(***************************************************************************)
GrassLight == Rgb(127, 178, 56)        \* GRASS (1), shade 2
GrassFlat  == Rgb(109, 153, 48)        \* GRASS (1), shade 1
GrassDark  == Rgb(89, 125, 39)         \* GRASS (1), shade 0
WaterFlat  == Rgb(55, 55, 220)         \* WATER (12), shade 1
WaterLight == Rgb(64, 64, 255)         \* WATER (12), shade 2
WaterDark  == Rgb(45, 45, 180)         \* WATER (12), shade 0
StoneDark  == Rgb(79, 79, 79)          \* STONE (11), shade 0
PlantDarkest == Rgb(0, 65, 0)          \* PLANT (7), shade 3
OffPalette == Rgb(10, 20, 30)          \* in no palette entry
GrassFlatFaint == [r |-> 109, g |-> 153, b |-> 48, a |-> 1]
HiddenOffPalette == [r |-> 10, g |-> 20, b |-> 30, a |-> 0]
Unmatched(k) == Rgb(1, 2, k)           \* in no palette entry, for every k

CustomOffPalette == [r |-> 10, g |-> 20, b |-> 30, block |-> << "stone" >>]
CustomOverGrass  == [r |-> 127, g |-> 178, b |-> 56, block |-> << "slime_block" >>]
CustomOverWater  == [r |-> 45, g |-> 45, b |-> 180, block |-> << "glass" >>]


(***************************************************************************)
(* SpecLookup: getShadedRgb fed back through the reverse lookup            *)
(***************************************************************************)
InitLookup ==
    /\ query \in [baseIndex : BaseIndices, shade : Shades, done : {FALSE},
                   rgb : {<< >>}, found : {NoMatch}]
    /\ customColors = << >>
    /\ convertUnsupported = FALSE
    /\ presetBlocks = None
    /\ fillerBlock = << >>
    /\ buildMode = "flat"
    /\ supportMode = "none"
    /\ imageData = NoImage
    /\ imageValid = FALSE
    /\ paletteErrors = << >>
    /\ pending = None
    /\ validation = None
    /\ placed = << >>
    /\ download = None

LookupShaded ==
    /\ ~query.done
    /\ LET rgb == getShadedRgb(query.baseIndex, query.shade)
       IN  query' = [query EXCEPT !.done = TRUE, !.rgb = rgb, !.found = LookupGet(rgb)]
    /\ UNCHANGED << customColors, convertUnsupported, presetBlocks, fillerBlock,
                    buildMode, supportMode, imageData, imageValid, paletteErrors,
                    pending, validation, placed, download >>

NextLookup == LookupShaded
SpecLookup == InitLookup /\ [][NextLookup]_vars

(***************************************************************************)
(* SpecValidate: validatePng on a family of images                         *)
(***************************************************************************)
WinLen == 14          \* listed pixels per image
MaxDistinct == 12     \* distinct off-palette colours per image

MixPool ==
    << << Transparent >>,
       << GrassLight >>,
       << GrassFlat, WaterDark, StoneDark, PlantDarkest >>,
       << OffPalette, GrassFlat >>,
       << GrassFlatFaint, HiddenOffPalette >> >>

\* Listed pixels off..off+WinLen-1: k distinct off-palette colours starting at
\* colour rot, the first of them repeated, then the pixels of mix in rotation.
ValidateImage(dims, bg, off, k, rot, mix) ==
    [width |-> dims[1], height |-> dims[2], bg |-> bg,
     px |-> [i \in off..(off + WinLen - 1) |->
                LET j == i - off
                IN  IF k > 0 /\ j < k + 1
                    THEN Unmatched((rot + j) % k)
                    ELSE MixPool[mix][(j % Len(MixPool[mix])) + 1]]]

ValidateImages ==
    { ValidateImage(<< 128, 128 >>, bg, off, k, rot, mix) :
        bg \in {Transparent, WaterFlat, Unmatched(0), OffPalette},
        off \in {0, 130}, k \in 0..MaxDistinct, rot \in {0, 1},
        mix \in DOMAIN MixPool }
    \cup
    { ValidateImage(dims, bg, 0, k, 0, mix) :
        dims \in {<< 127, 128 >>, << 128, 256 >>, << 64, 64 >>},
        bg \in {Transparent, WaterFlat, Unmatched(0)},
        k \in {0, 1, MaxDistinct}, mix \in DOMAIN MixPool }

ValidateCustomLists ==
    { << >>, << CustomOffPalette >>, << CustomOverGrass, CustomOffPalette >> }

InitValidate ==
    /\ imageData \in ValidateImages
    /\ customColors \in ValidateCustomLists
    /\ validation = None
    /\ convertUnsupported = FALSE
    /\ presetBlocks = None
    /\ fillerBlock = << >>
    /\ buildMode = "flat"
    /\ supportMode = "none"
    /\ imageValid = FALSE
    /\ paletteErrors = << >>
    /\ pending = None
    /\ placed = << >>
    /\ download = None
    /\ query = None

Validate ==
    /\ validation = None
    /\ validation' = validatePng(imageData, customColors)
    /\ UNCHANGED << customColors, convertUnsupported, presetBlocks, fillerBlock,
                    buildMode, supportMode, imageData, imageValid, paletteErrors,
                    pending, placed, download, query >>

NextValidate == Validate
SpecValidate == InitValidate /\ [][NextValidate]_vars

(***************************************************************************)
(* SpecConv: convertToNbt on a family of images and options                *)
(***************************************************************************)
ConversionOptions ==
    [blockMapping |-> presetBlocks, fillerBlock |-> fillerBlock,
     customColors |-> customColors, buildMode |-> buildMode,
     supportMode |-> supportMode, baseName |-> "map", layerGap |-> << >>]

BuildModes ==
    {"flat", "staircase_valley", "staircase_classic", "staircase_northline",
     "staircase_southline", "staircase_cancer", "suppress_checker", "suppress_pairs",
     "suppress_pairs_ew", "suppress_dual_layer"}
SupportModes == {"none", "steps", "all", "fragile", "water"}

\* The pixels of one column from its first listed row on, north to south.
ColumnPool ==
    << << GrassLight >>,
       << GrassFlat >>,
       << PlantDarkest, GrassLight, GrassFlat >>,
       << GrassFlat, OffPalette, GrassDark >>,
       << WaterDark, GrassFlat, StoneDark >>,
       << WaterFlat, WaterLight, GrassDark >>,
       << GrassLight, Transparent, PlantDarkest, GrassFlat >>,
       << OffPalette, HiddenOffPalette >>,
       << StoneDark, WaterDark, WaterFlat, GrassLight >>,
       << WaterLight, StoneDark, GrassFlat >> >>

FirstColumn == 5      \* the column the first pattern is drawn in

\* Pattern a in column FirstColumn and pattern b (0: none) in the next
\* column, both from row z0 on; every other pixel is transparent.
ConvImage(z0, a, b) ==
    LET cells(x, pat) == {(z0 + j - 1) * MapSize + x : j \in 1..Len(pat)}
        colA == cells(FirstColumn, ColumnPool[a])
        colB == IF b = 0 THEN {} ELSE cells(FirstColumn + 1, ColumnPool[b])
    IN  [width |-> MapSize, height |-> MapSize, bg |-> Transparent,
         px |-> [idx \in colA \cup colB |->
                    IF idx % MapSize = FirstColumn
                    THEN ColumnPool[a][(idx \div MapSize) - z0 + 1]
                    ELSE ColumnPool[b][(idx \div MapSize) - z0 + 1]]]

ConvImages ==
    { ConvImage(z0, a, b) : z0 \in {0, 3}, a \in DOMAIN ColumnPool, b \in {0, 2, 5} }

ConvSupport ==
    { << << "stone" >>, "none" >>, << << "stone" >>, "steps" >>, << << "stone" >>, "all" >>,
      << << "stone" >>, "fragile" >>, << << "stone" >>, "water" >>,
      << << "air" >>, "all" >>, << << >>, "none" >> }

InitConv ==
    /\ imageData \in ConvImages
    /\ customColors \in { << >>, << CustomOverGrass, CustomOverWater, CustomOffPalette >> }
    /\ presetBlocks \in { DefaultPresetBlocks, CarpetsPresetBlocks }
    /\ \E fs \in ConvSupport : fillerBlock = fs[1] /\ supportMode = fs[2]
    /\ buildMode \in BuildModes
    /\ convertUnsupported = FALSE
    /\ imageValid = TRUE
    /\ paletteErrors = << >>
    /\ pending = None
    /\ validation = None
    /\ placed = << >>
    /\ download = None
    /\ query = None

Convert ==
    /\ download = None
    /\ placed' = Placements(imageData, ConversionOptions)
    /\ download' = Serialize(placed', ConversionOptions)
    /\ UNCHANGED << customColors, convertUnsupported, presetBlocks, fillerBlock,
                    buildMode, supportMode, imageData, imageValid, paletteErrors,
                    pending, validation, query >>

NextConv == Convert
SpecConv == InitConv /\ [][NextConv]_vars

(***************************************************************************)
(* SpecSingle: convertToNbt on images of one opaque pixel in column 5,     *)
(* GRASS mapped to grass_block, filler "stone", staircase_classic, no      *)
(* support                                                                 *)
(***************************************************************************)
SinglePixel(x, z, colour) ==
    [width |-> MapSize, height |-> MapSize, bg |-> Transparent,
     px |-> [idx \in {z * MapSize + x} |-> colour]]

InitSingle ==
    /\ imageData \in { SinglePixel(FirstColumn, z, colour) :
                          z \in 0..(MapSize - 1), colour \in {GrassLight, GrassFlat} }
    /\ customColors = << >>
    /\ presetBlocks = DefaultPresetBlocks
    /\ fillerBlock = << "stone" >>
    /\ buildMode = "staircase_classic"
    /\ supportMode = "none"
    /\ convertUnsupported = FALSE
    /\ imageValid = TRUE
    /\ paletteErrors = << >>
    /\ pending = None
    /\ validation = None
    /\ placed = << >>
    /\ download = None
    /\ query = None

SpecSingle == InitSingle /\ [][NextConv]_vars

(***************************************************************************)
(* Claims                                                                  *)
(***************************************************************************)
LookupDone == query # None /\ query.done

\* C6 (as stated): for each of the 62x4 combinations (index 0..61, shade 0..3)
\* the reverse lookup of getShadedRgb(index, shade) yields (index, shade).
C6_AllIndices ==
    LookupDone =>
        query.found = [baseIndex |-> query.baseIndex, shade |-> query.shade]

\* C6 (amended): for each of the 61x4 combinations with index 1..61 the reverse
\* lookup of getShadedRgb(index, shade) yields (index, shade); for index 0 the
\* lookup finds nothing.
C6_PaletteRoundTrip ==
    LookupDone =>
        IF query.baseIndex >= 1
        THEN query.found = [baseIndex |-> query.baseIndex, shade |-> query.shade]
        ELSE query.found = NoMatch

C6_Witness ==
    LookupDone /\ query.baseIndex = 61 /\ query.shade = 3 /\ IsMatch(query.found)

(***************************************************************************)
(* Spec: the page.  One image load is in flight at a time; the preset list *)
(* is represented by the blocks of its active entry; download and placed   *)
(* hold what the step just taken handed to the browser.                    *)
(***************************************************************************)
MaxCustoms == 1       \* entries of customColors

PageImage(w, h, pixels) == [width |-> w, height |-> h, bg |-> Transparent, px |-> pixels]
FilePalette ==
    PageImage(128, 128, (5 :> GrassFlat) @@ (133 :> WaterDark) @@ (262 :> StoneDark))
FileFlat == PageImage(128, 128, (5 :> GrassFlat) @@ (133 :> GrassFlat))
FileUnmatched ==
    PageImage(128, 128,
        (5 :> GrassLight) @@ (133 :> OffPalette) @@ (134 :> Unmatched(3))
          @@ (135 :> HiddenOffPalette) @@ (136 :> GrassFlatFaint) @@ (262 :> OffPalette))
FileNarrow == PageImage(64, 128, (0 :> OffPalette) @@ (1 :> GrassFlat))
FileTall == PageImage(128, 129, (0 :> GrassFlat))
PageFiles == {FilePalette, FileFlat, FileUnmatched, FileNarrow, FileTall}

PageCustoms == {CustomOffPalette}
PageFillers == {<< "resin_block" >>, << "glass" >>}
PagePresets == {DefaultPresetBlocks, CarpetsPresetBlocks}
\* options of the two selects that are not disabled
PageBuildModes == {"staircase_classic", "suppress_pairs"}
PageSupportModes == {"none", "water"}

usedBaseColors == usedBaseColorsOf(imageData, imageValid)
imageHasWater == 12 \in usedBaseColors
fillerIsNoneColor == fillerIsNoneColorOf(fillerBlock)
missingBlocks == missingBlocksOf(imageData, imageValid, presetBlocks)
hasNonFlatShades == hasNonFlatShadesOf(imageData, customColors)
hasSuppressPattern == hasSuppressPatternOf(imageData, customColors)
canGenerate == imageValid /\ missingBlocks = {}
effectiveBuildMode == IF hasNonFlatShades THEN buildMode ELSE "flat"
materialCounts ==
    IF imageData = NoImage \/ ~imageValid THEN None
    ELSE computeMaterialCounts(imageData,
            [ConversionOptions EXCEPT !.buildMode = effectiveBuildMode, !.baseName = ""])

Init ==
    /\ customColors = << >>
    /\ convertUnsupported = FALSE
    /\ presetBlocks = DefaultPresetBlocks
    /\ fillerBlock = << "resin_block" >>
    /\ buildMode = "staircase_classic"
    /\ supportMode = "none"
    /\ imageData = NoImage
    /\ imageValid = FALSE
    /\ paletteErrors = << >>
    /\ pending = None
    /\ validation = None
    /\ placed = << >>
    /\ download = None
    /\ query = None

NothingHanded == placed' = << >> /\ download' = None

HandleFile(file) ==
    /\ pending = None
    /\ paletteErrors' = << >>
    /\ pending' = [data |-> file, customColors |-> customColors,
                   convertUnsupported |-> convertUnsupported]
    /\ NothingHanded
    /\ UNCHANGED << customColors, convertUnsupported, presetBlocks, fillerBlock,
                    buildMode, supportMode, imageData, imageValid, validation, query >>

\* What img.onload sets, and the effects that follow it.
OnloadSets(out) ==
    /\ imageData' = out.imageData
    /\ imageValid' = out.imageValid
    /\ paletteErrors' = out.paletteErrors
    /\ buildMode' = AutoBuildMode(buildMode, out.imageData, customColors)
    /\ supportMode' = AutoSupportMode(supportMode, out.imageData, out.imageValid,
                                      customColors, fillerBlock)

ImgOnload ==
    /\ pending # None
    /\ OnloadSets(OnloadOutcome(pending.data, pending.customColors,
                                pending.convertUnsupported))
    /\ pending' = None
    /\ NothingHanded
    /\ UNCHANGED << customColors, convertUnsupported, presetBlocks, fillerBlock,
                    validation, query >>

clearImage ==
    /\ canGenerate
    /\ imageData' = NoImage
    /\ imageValid' = FALSE
    /\ paletteErrors' = << >>
    /\ NothingHanded
    /\ UNCHANGED << customColors, convertUnsupported, presetBlocks, fillerBlock,
                    buildMode, supportMode, pending, validation, query >>

\* setCustomColors followed by the two effects
SetCustomColors(cc) ==
    LET changed == \/ hasNonFlatShadesOf(imageData, cc) # hasNonFlatShades
                   \/ hasSuppressPatternOf(imageData, cc) # hasSuppressPattern
    IN  /\ customColors' = cc
        /\ buildMode' = IF changed THEN AutoBuildMode(buildMode, imageData, cc)
                        ELSE buildMode
        /\ supportMode' = AutoSupportMode(supportMode, imageData, imageValid, cc,
                                          fillerBlock)
        /\ NothingHanded
        /\ UNCHANGED << convertUnsupported, presetBlocks, fillerBlock, imageData,
                        imageValid, paletteErrors, pending, validation, query >>

addCustomColor(c) ==
    /\ Len(customColors) < MaxCustoms
    /\ c.block # << >>
    /\ SetCustomColors(Append(customColors, c))

RemoveCustomColor(i) ==
    /\ i \in DOMAIN customColors
    /\ SetCustomColors(SubSeq(customColors, 1, i - 1)
                         \o SubSeq(customColors, i + 1, Len(customColors)))

SetConvertUnsupported ==
    /\ convertUnsupported' = ~convertUnsupported
    /\ NothingHanded
    /\ UNCHANGED << customColors, presetBlocks, fillerBlock, buildMode, supportMode,
                    imageData, imageValid, paletteErrors, pending, validation, query >>

selectPreset(blocks) ==
    /\ presetBlocks' = blocks
    /\ NothingHanded
    /\ UNCHANGED << customColors, convertUnsupported, fillerBlock, buildMode,
                    supportMode, imageData, imageValid, paletteErrors, pending,
                    validation, query >>

updateBlock(baseIndex, block) ==
    /\ presetBlocks' = [presetBlocks EXCEPT ![baseIndex] = block]
    /\ NothingHanded
    /\ UNCHANGED << customColors, convertUnsupported, fillerBlock, buildMode,
                    supportMode, imageData, imageValid, paletteErrors, pending,
                    validation, query >>

SetFillerBlock(filler) ==
    /\ fillerBlock' = filler
    /\ supportMode' = AutoSupportMode(supportMode, imageData, imageValid, customColors,
                                      filler)
    /\ NothingHanded
    /\ UNCHANGED << customColors, convertUnsupported, presetBlocks, buildMode,
                    imageData, imageValid, paletteErrors, pending, validation, query >>

SetSupportMode(mode) ==
    /\ imageData # NoImage
    /\ mode = "steps" => hasNonFlatShades
    /\ mode = "water" => (imageHasWater /\ fillerIsNoneColor)
    /\ supportMode' = mode
    /\ NothingHanded
    /\ UNCHANGED << customColors, convertUnsupported, presetBlocks, fillerBlock,
                    buildMode, imageData, imageValid, paletteErrors, pending,
                    validation, query >>

SetBuildMode(mode) ==
    /\ imageData # NoImage /\ hasNonFlatShades
    /\ buildMode' = mode
    /\ NothingHanded
    /\ UNCHANGED << customColors, convertUnsupported, presetBlocks, fillerBlock,
                    supportMode, imageData, imageValid, paletteErrors, pending,
                    validation, query >>

handleConvertAndDownload ==
    /\ canGenerate
    /\ imageData # NoImage
    /\ placed' = Placements(imageData, ConversionOptions)
    /\ download' = Serialize(placed', ConversionOptions)
    /\ UNCHANGED << customColors, convertUnsupported, presetBlocks, fillerBlock,
                    buildMode, supportMode, imageData, imageValid, paletteErrors,
                    pending, validation, query >>

Next ==
    \/ \E file \in PageFiles : HandleFile(file)
    \/ ImgOnload
    \/ clearImage
    \/ \E c \in PageCustoms : addCustomColor(c)
    \/ \E i \in 1..MaxCustoms : RemoveCustomColor(i)
    \/ SetConvertUnsupported
    \/ \E blocks \in PagePresets : selectPreset(blocks)
    \/ \E block \in {<< >>, BASE_COLORS_FIRST_BLOCK[2]} : updateBlock(1, block)
    \/ \E filler \in PageFillers : SetFillerBlock(filler)
    \/ \E mode \in PageSupportModes : SetSupportMode(mode)
    \/ \E mode \in PageBuildModes : SetBuildMode(mode)
    \/ handleConvertAndDownload

Spec == Init /\ [][Next]_vars

(***************************************************************************)
(* Claims on validatePng (SpecValidate)                                    *)
(***************************************************************************)
Validated == validation # None /\ imageData # NoImage
FullSize(img) == img.width = 128 /\ img.height = 128

\* Where each key first occurs.
ShadedPalette == {<< i, getShadedRgb(i, 0), getShadedRgb(i, 1), getShadedRgb(i, 2),
                      getShadedRgb(i, 3) >> : i \in 1..61}
IsPaletteKey(key) == \E e \in ShadedPalette : \E n \in 2..5 : e[n] = key
PaletteIndexOf(key) == (CHOOSE e \in ShadedPalette : \E n \in 2..5 : e[n] = key)[1]
IsCustomKey(cc, key) == \E n \in 1..Len(cc) : << cc[n].r, cc[n].g, cc[n].b >> = key
Offending(img, cc) ==
    {KeyOf(p) : p \in {q \in PixelValues(img) :
        q.a # 0 /\ ~IsPaletteKey(KeyOf(q)) /\ ~IsCustomKey(cc, KeyOf(q))}}
FirstOpaqueIndex(img, key) ==
    Min({i \in (DOMAIN img.px) \cup {Min({n \in 0..WinLen : n \notin DOMAIN img.px})} :
            PixelAtIndex(img, i).a # 0 /\ KeyOf(PixelAtIndex(img, i)) = key})

AllOpaquePalette(img) ==
    \A p \in PixelValues(img) : p.a # 0 /\ IsPaletteKey(KeyOf(p))

\* C1: a 128x128 image whose every pixel is opaque and carries a shaded palette
\* colour (customColors empty) validates with no error, and usedBaseColors is
\* exactly the set of palette indices of the colours in the image.
C1_PaletteImageValid ==
    (Validated /\ FullSize(imageData) /\ AllOpaquePalette(imageData)
        /\ customColors = << >>)
    => /\ validation.valid
       /\ validation.errors = << >>
       /\ validation.usedBaseColors =
            {PaletteIndexOf(KeyOf(p)) : p \in PixelValues(imageData)}

C1_Witness ==
    /\ Validated /\ FullSize(imageData) /\ AllOpaquePalette(imageData)
    /\ customColors = << >>
    /\ validation.usedBaseColors = {1, 7, 11, 12}

\* C3: a 128x128 image is invalid exactly when an opaque pixel is in neither the
\* palette nor customColors; the message counts every distinct offending colour
\* and shows the first 10 of them at most, in order of first occurrence.
C3_OffendingColoursReported ==
    (Validated /\ FullSize(imageData))
    => LET bad == Offending(imageData, customColors)
       IN  /\ validation.valid = (bad = {})
           /\ bad = {} => validation.errors = << >>
           /\ bad # {} =>
                /\ Len(validation.errors) = 1
                /\ LET e == validation.errors[1]
                   IN  /\ e.kind = "palette"
                       /\ e.count = Cardinality(bad)
                       /\ Len(e.shown) = IF e.count > 10 THEN 10 ELSE e.count
                       /\ e.ellipsis = (e.count > 10)
                       /\ \A i \in 1..Len(e.shown) :
                            /\ e.shown[i] \in bad
                            /\ Cardinality({k \in bad :
                                  FirstOpaqueIndex(imageData, k)
                                    < FirstOpaqueIndex(imageData, e.shown[i])}) = i - 1

C3_Witness ==
    /\ Validated /\ FullSize(imageData)
    /\ ~validation.valid
    /\ validation.errors[1].count = 12
    /\ Len(validation.errors[1].shown) = 10
    /\ 1 \in validation.usedBaseColors

(***************************************************************************)
(* Claims on convertToNbt (SpecConv, SpecSingle)                           *)
(***************************************************************************)
Converted == download # None
ListedPixels(img) == {i \in DOMAIN img.px : img.px[i].a # 0}
Matched(cc, p) == p.a # 0 /\ (IsPaletteKey(KeyOf(p)) \/ IsCustomKey(cc, KeyOf(p)))
AllPlaced == UNION {{placed[k][i] : i \in DOMAIN placed[k]} : k \in DOMAIN placed}

\* The pixels whose colour is both a customColors entry and a shaded palette
\* colour, and the image and custom list in which each such entry n has moved
\* to the colour (1, 2, n), which is in no palette entry.
OverlapPixels(img, cc) ==
    {i \in ListedPixels(img) :
        IsCustomKey(cc, KeyOf(img.px[i])) /\ IsPaletteKey(KeyOf(img.px[i]))}
TwinOf(cc, key) == Max({n \in 1..Len(cc) : << cc[n].r, cc[n].g, cc[n].b >> = key})
WithTwins(cc) ==
    [n \in 1..Len(cc) |->
        IF IsPaletteKey(<< cc[n].r, cc[n].g, cc[n].b >>)
        THEN [r |-> 1, g |-> 2, b |-> n, block |-> cc[n].block]
        ELSE cc[n]]
Recoloured(img, cc) ==
    [img EXCEPT !.px = [i \in DOMAIN img.px |->
        IF i \in OverlapPixels(img, cc)
        THEN [r |-> 1, g |-> 2, b |-> TwinOf(cc, KeyOf(img.px[i])), a |-> img.px[i].a]
        ELSE img.px[i]]]

\* C5 (as stated): the custom table takes priority over the palette lookup in
\* every stage: a pixel whose colour is both a customColors entry and a shaded
\* palette colour is classified by validatePng as custom, placed by the builders
\* as the custom block, flat and non-liquid, and read as flat and non-liquid by
\* the valley and cancer passes - so that nothing changes when the entry and
\* its pixels move to a colour outside the palette.
C5_CustomPriority ==
    (Converted /\ OverlapPixels(imageData, customColors) # {})
    => LET twins == WithTwins(customColors)
           moved == Recoloured(imageData, customColors)
       IN  /\ validatePng(imageData, customColors).usedBaseColors
                = validatePng(moved, twins).usedBaseColors
           /\ \A i \in OverlapPixels(imageData, customColors) :
                /\ pixelShade(imageData, customColors, i % MapSize, i \div MapSize)
                     = ShadeInfo(1, FALSE)
                /\ pixelInfo(imageData, customColors, i % MapSize, i \div MapSize)
                     = ShadeInfo(1, FALSE)
           /\ placed = Placements(moved, [ConversionOptions EXCEPT !.customColors = twins])

\* C8: the result is flagged as an archive exactly when buildMode is
\* suppress_pairs; the archive then holds exactly two entries, named
\* <baseName>-odd_rows.nbt and <baseName>-even_rows.nbt, each a compressed
\* structure of its own half with size Z at least 128 - also when the half is
\* empty; every other mode yields one compressed structure.
C8_ArchiveForPairs ==
    Converted
    => /\ download.isZip = (buildMode = "suppress_pairs")
       /\ download.isZip =>
            LET entries == download.data.zip
            IN  /\ Len(entries) = 2
                /\ entries[1].name = << ConversionOptions.baseName, "-odd_rows.nbt" >>
                /\ entries[2].name = << ConversionOptions.baseName, "-even_rows.nbt" >>
                /\ \A k \in 1..2 :
                     LET nbt == entries[k].data.gzip
                     IN  /\ nbt.size[1] = 128 /\ nbt.size[2] >= 1 /\ nbt.size[3] >= 128
                         /\ Len(nbt.blocks) = Len(placed[k])
                         /\ \A i \in DOMAIN nbt.blocks :
                              /\ nbt.blocks[i].pos[1] = placed[k][i].x
                              /\ nbt.blocks[i].pos[3] \in 0..(nbt.size[3] - 1)
                              /\ nbt.blocks[i].pos[2] \in 0..(nbt.size[2] - 1)
                         /\ placed[k] = << >> => nbt.size = << 128, 1, 128 >>
       /\ ~download.isZip => download.data.gzip.size[1] = 128

C8_Witness ==
    /\ Converted /\ download.isZip
    /\ placed[1] = << >> /\ Len(placed[2]) > 1
    /\ download.data.zip[1].data.gzip.size = << 128, 1, 128 >>
    /\ download.data.zip[2].data.gzip.size[3] = 128

\* The pixel of a SpecSingle image.
SingleIndex == CHOOSE i \in DOMAIN imageData.px : TRUE
SingleZ == SingleIndex \div MapSize
SingleIsLight == imageData.px[SingleIndex] = GrassLight
GrassVoxel(z) == Block(FirstColumn, 0, z, << "minecraft:", "grass_block" >>)
StoneVoxel(z) == Block(FirstColumn, 0, z, << "minecraft:", "stone" >>)

\* C9 (as stated): one opaque pixel (127,178,56) at column 5, row z gives
\* exactly the colour voxel (5, 0, z) grass_block, plus the filler voxel
\* (5, 0, z-1) if and only if z is not the first row.
C9_FillerUnlessFirstRow ==
    (Converted /\ SingleIsLight)
    => /\ Len(placed) = 1
       /\ AllPlaced = {GrassVoxel(SingleZ)}
                        \cup (IF SingleZ # 0 THEN {StoneVoxel(SingleZ - 1)} ELSE {})
       /\ Len(placed[1]) = IF SingleZ # 0 THEN 2 ELSE 1

\* C9 (amended): one opaque pixel (127,178,56) - the light shade of GRASS - at
\* column 5, row z gives exactly the colour voxel (5, 0, z) grass_block and no
\* filler voxel, whatever z is; the flat shade (109,153,48) gives the colour
\* voxel and the filler voxel (5, 0, z-1) for every z, the first row included.
C9_LightPixelAlone ==
    Converted
    => placed = IF SingleIsLight
                THEN << << GrassVoxel(SingleZ) >> >>
                ELSE << << StoneVoxel(SingleZ - 1), GrassVoxel(SingleZ) >> >>

C9_Witness ==
    /\ Converted /\ SingleIsLight /\ SingleZ = 7
    /\ placed = << << GrassVoxel(7) >> >>
    /\ download.data.gzip.blocks = << [pos |-> << 5, 0, 7 >>, state |-> 0] >>

\* The image without its opaque pixels that match neither table.
Erased(img, cc) ==
    [img EXCEPT !.px = [i \in DOMAIN img.px |->
        IF Matched(cc, img.px[i]) THEN img.px[i] ELSE Transparent]]

\* C10: in every build mode each placement has a non-empty block identifier
\* (it starts with the namespace), and transparent and unmatched pixels cause
\* no placement: an image without a matched pixel gives no placement, and
\* making the unmatched pixels transparent changes nothing.
C10_OnlyMatchedPixelsPlace ==
    Converted
    => /\ \A b \in AllPlaced : b.blockName # << >> /\ Head(b.blockName) = "minecraft:"
       /\ (\A i \in DOMAIN imageData.px : ~Matched(customColors, imageData.px[i]))
            => \A k \in DOMAIN placed : placed[k] = << >>
       /\ placed = Placements(Erased(imageData, customColors), ConversionOptions)

C10_Witness ==
    /\ Converted /\ buildMode = "staircase_valley" /\ fillerBlock = << "stone" >>
    /\ \E i \in ListedPixels(imageData) :
          /\ ~Matched(customColors, imageData.px[i])
          /\ i - MapSize \in ListedPixels(imageData)
          /\ i + MapSize \in ListedPixels(imageData)
    /\ Len(placed[1]) >= 3

(***************************************************************************)
(* Claims on the page (Spec)                                               *)
(***************************************************************************)
\* The step is the img.onload of the load in flight.
Loaded == pending # None /\ pending' = None

\* C2: an image whose width or height is not 128 makes validatePng return
\* valid = false with exactly one error, which names the actual width and
\* height, and an empty usedBaseColors; the page then holds no image
\* (imageData null, imageValid false), whether or not the load was started
\* with nearest-colour repair switched on.
C2_WrongSizeRejected ==
    [][(Loaded /\ ~FullSize(pending.data))
        => /\ validatePng(pending.data, pending.customColors)
                = [valid |-> FALSE,
                   errors |-> << [kind |-> "size", width |-> pending.data.width,
                                  height |-> pending.data.height] >>,
                   usedBaseColors |-> {}]
           /\ imageData' = NoImage
           /\ imageValid' = FALSE
           /\ paletteErrors' = << [kind |-> "size", width |-> pending.data.width,
                                   height |-> pending.data.height] >>]_vars

C2_Witness ==
    /\ pending = None /\ convertUnsupported
    /\ paletteErrors = << [kind |-> "size", width |-> 128, height |-> 129] >>
    /\ imageData = NoImage /\ ~imageValid

\* Some opaque pixel of the image has a palette colour whose index holds no
\* block in the colour mapping.
MissingMapping ==
    /\ imageData # NoImage /\ imageValid
    /\ \E p \in PixelValues(imageData) :
          /\ p.a # 0 /\ IsPaletteKey(KeyOf(p))
          /\ presetBlocks[PaletteIndexOf(KeyOf(p))] = << >>
\* The names under which the blocks substituted for the palette colours of the
\* image that hold no block and are no custom colour are counted.
SubstitutedNames ==
    {toDisplayName(resolveBlockName(BASE_COLORS_FIRST_BLOCK[PaletteIndexOf(KeyOf(p)) + 1])) :
        p \in {q \in PixelValues(imageData) :
                  /\ q.a # 0 /\ IsPaletteKey(KeyOf(q))
                  /\ ~IsCustomKey(customColors, KeyOf(q))
                  /\ presetBlocks[PaletteIndexOf(KeyOf(q))] = << >>}}

\* C4 (as stated): when an opaque pixel has a palette index that holds no
\* block, generation is not enabled, the builder is not run, and no voxel is
\* emitted for that colour with a substituted block.
C4_BuilderNotRun ==
    MissingMapping
    => /\ ~canGenerate
       /\ download = None
       /\ materialCounts = None

\* C4 (amended): when an opaque pixel has a palette index that holds no block,
\* generation is not enabled and no step hands out a file; the material
\* preview still runs the builder, which substitutes the first block of the
\* palette entry and counts its voxels.
C4_NoFileButPreview ==
    /\ [](MissingMapping
            => /\ ~canGenerate
               /\ download = None /\ placed = << >>
               /\ materialCounts # None
               /\ \A name \in SubstitutedNames : CountOf(materialCounts, name) >= 1)
    /\ [][MissingMapping => (download' = None /\ placed' = << >>)]_vars

C4_Witness ==
    /\ MissingMapping /\ ~canGenerate
    /\ imageData = FilePalette /\ presetBlocks = CarpetsPresetBlocks
    /\ CountOf(materialCounts, << "grass_block" >>) = 1
    /\ CountOf(materialCounts, << "cobblestone" >>) = 1

\* The palette-quantized colours, and the squared distance to one of them.
PaletteKeys == {e[n] : e \in ShadedPalette, n \in 2..5}
Dist2(p, key) ==
    ((p.r - key[1]) * (p.r - key[1])) + ((p.g - key[2]) * (p.g - key[2]))
      + ((p.b - key[3]) * (p.b - key[3]))
\* q is what the repair makes of the pixel p.
Repaired(cc, p, q) ==
    IF p.a # 0 /\ ~IsPaletteKey(KeyOf(p)) /\ ~IsCustomKey(cc, KeyOf(p))
    THEN /\ q.a = p.a
         /\ KeyOf(q) \in PaletteKeys
         /\ \A k \in PaletteKeys : Dist2(p, KeyOf(q)) <= Dist2(p, k)
    ELSE q = p

\* C7: in repair mode on a 128x128 image with unmatched colours one pass
\* suffices: every unmatched opaque pixel gets a palette-quantized colour at
\* minimum squared distance, every other pixel is unchanged, and validating
\* the repaired image gives valid = true and no error.
C7_RepairInOnePass ==
    [][(/\ Loaded /\ FullSize(pending.data) /\ pending.convertUnsupported
        /\ Offending(pending.data, pending.customColors) # {})
        => /\ imageData' # NoImage
           /\ FullSize(imageData')
           /\ DOMAIN imageData'.px = DOMAIN pending.data.px
           /\ \A i \in (DOMAIN pending.data.px) \cup {-1} :
                 Repaired(pending.customColors, PixelAtIndex(pending.data, i),
                          PixelAtIndex(imageData', i))
           /\ validatePng(imageData', pending.customColors).valid
           /\ validatePng(imageData', pending.customColors).errors = << >>
           /\ imageValid'
           /\ paletteErrors'
                = << [kind |-> "converted",
                      count |-> Cardinality(Offending(pending.data,
                                                      pending.customColors))] >>]_vars

C7_Witness ==
    /\ pending = None /\ imageValid
    /\ paletteErrors = << [kind |-> "converted", count |-> 2] >>
    /\ imageData.px[5] = GrassLight
    /\ imageData.px[135] = HiddenOffPalette
    /\ imageData.px[133] # OffPalette /\ IsPaletteKey(KeyOf(imageData.px[133]))
    /\ imageData.px[133] = imageData.px[262]

(***************************************************************************)
(* The placement-list functions on their own (SpecBlocks): applySupport,   *)
(* normalizeAndMeasure and writeStructureNbt applied to lists of at most   *)
(* MaxBlocks voxels drawn from VoxelPool.  The pool holds a two-voxel      *)
(* water stack, a fragile block on a solid one, a waterlogged leaf block   *)
(* beside the water, a voxel in the filler row z = -1 and one in the last  *)
(* row z = 127; z stays inside -1..127, the rows the builders write.       *)
(* placed holds the input list, query the result of the function applied.  *)
(***************************************************************************)
MaxBlocks == 3

VoxelPool ==
    { Block(4, 0, 0, resolveBlockName(<< "stone" >>)),
      Block(4, 1, 0, resolveBlockName(<< "white_carpet" >>)),
      Block(4, 0, 1, resolveBlockName(<< "water" >>)),
      Block(4, 1, 1, resolveBlockName(<< "water" >>)),
      Block(4, -1, -1, resolveBlockName(<< "stone" >>)),
      Block(5, 0, 1, resolveBlockName(<< "oak_", "leaves", "[", "waterlogged", "=", "true", "]" >>)),
      Block(4, 64, 127, resolveBlockName(<< "white_carpet" >>)),
      Block(3, 0, 1, resolveBlockName(<< "stone" >>)) }

BlockLists == UNION {[1..n -> VoxelPool] : n \in 0..MaxBlocks}

BlockFillers ==
    { << "stone" >>, << "oak_", "leaves" >>, << " ", "AIR", " " >>, << "None" >> }

InitBlocks ==
    /\ placed \in {<< blocks >> : blocks \in BlockLists}
    /\ query = None
    /\ customColors = << >>
    /\ convertUnsupported = FALSE
    /\ presetBlocks = None
    /\ fillerBlock = << >>
    /\ buildMode = "flat"
    /\ supportMode = "none"
    /\ imageData = NoImage
    /\ imageValid = FALSE
    /\ paletteErrors = << >>
    /\ pending = None
    /\ validation = None
    /\ download = None

SupportOptions(filler, mode) ==
    [ConversionOptions EXCEPT !.fillerBlock = filler, !.supportMode = mode]

Support ==
    /\ query = None
    /\ \E filler \in BlockFillers, mode \in SupportModes :
          query' = [op |-> "support", filler |-> filler, mode |-> mode,
                    out |-> applySupport(placed[1], SupportOptions(filler, mode))]
    /\ UNCHANGED << customColors, convertUnsupported, presetBlocks, fillerBlock,
                    buildMode, supportMode, imageData, imageValid, paletteErrors,
                    pending, validation, placed, download >>

Normalize ==
    /\ query = None
    /\ query' = [op |-> "normalize", out |-> normalizeAndMeasure(placed[1])]
    /\ UNCHANGED << customColors, convertUnsupported, presetBlocks, fillerBlock,
                    buildMode, supportMode, imageData, imageValid, paletteErrors,
                    pending, validation, placed, download >>

WriteNbt ==
    /\ query = None
    /\ query' = [op |-> "write", out |-> toNbt(placed[1])]
    /\ UNCHANGED << customColors, convertUnsupported, presetBlocks, fillerBlock,
                    buildMode, supportMode, imageData, imageValid, paletteErrors,
                    pending, validation, placed, download >>

\* normalizeAndMeasure run once more, on the list its first run left
NormalizeAgain ==
    /\ query # None /\ query.op = "normalize"
    /\ query' = [op |-> "normalized twice", first |-> query.out,
                 out |-> normalizeAndMeasure(query.out.blocks)]
    /\ UNCHANGED << customColors, convertUnsupported, presetBlocks, fillerBlock,
                    buildMode, supportMode, imageData, imageValid, paletteErrors,
                    pending, validation, placed, download >>

NextBlocks == Support \/ Normalize \/ NormalizeAgain \/ WriteNbt
SpecBlocks == InitBlocks /\ [][NextBlocks]_vars

(***************************************************************************)
(* Claims on the support policies (SpecBlocks)                             *)
(***************************************************************************)
Supported(mode) ==
    /\ query # None /\ query.op = "support" /\ query.mode = mode
    /\ ~isFillerDisabled(query.filler)
Appended == SubSeq(query.out, Len(placed[1]) + 1, Len(query.out))

\* C11: after the policy "all" with an enabled filler, the cell below every
\* voxel of the input list is occupied in the result, by an input voxel or by
\* an added filler voxel; filler is added only directly below an input voxel
\* on a cell no input voxel occupies, so under a liquid stack only the cell
\* below the bottom voxel receives filler.
C11_AllSupportBelowEveryVoxel ==
    Supported("all") =>
        /\ \A i \in 1..Len(placed[1]) :
              << placed[1][i].x, placed[1][i].y - 1, placed[1][i].z >> \in Occupied(query.out)
        /\ \A k \in 1..Len(Appended) :
              /\ Appended[k].blockName = resolveBlockName(query.filler)
              /\ Pos(Appended[k]) \notin Occupied(placed[1])
              /\ \E i \in 1..Len(placed[1]) :
                    Pos(Appended[k]) = << placed[1][i].x, placed[1][i].y - 1, placed[1][i].z >>

\* a two-voxel water stack beside a stone voxel: two fillers, one under the
\* bottom water voxel and one under the stone
C11_Witness ==
    /\ Supported("all")
    /\ Len(placed[1]) = 3
    /\ << 4, 0, 1 >> \in Occupied(placed[1]) /\ << 4, 1, 1 >> \in Occupied(placed[1])
    /\ << 4, 0, 0 >> \in Occupied(placed[1])
    /\ Len(Appended) = 2
    /\ << 4, -1, 1 >> \in Occupied(Appended)

\* C12: each of the policies steps, all, fragile and water only appends: the
\* voxels of the input list are the first voxels of the result, unchanged and
\* in order; every appended voxel carries the resolved filler identifier; no
\* appended voxel lies on a cell of an input voxel or of another appended voxel.
C12_SupportOnlyAppends ==
    \A mode \in {"steps", "all", "fragile", "water"} :
        Supported(mode) =>
            /\ Len(query.out) >= Len(placed[1])
            /\ SubSeq(query.out, 1, Len(placed[1])) = placed[1]
            /\ \A k \in 1..Len(Appended) :
                  /\ Appended[k].blockName = resolveBlockName(query.filler)
                  /\ Pos(Appended[k]) \notin Occupied(placed[1])
                  /\ \A j \in 1..Len(Appended) : j # k => Pos(Appended[j]) # Pos(Appended[k])

\* the water policy around a two-voxel water stack with a stone voxel to its
\* west: four cells around and below the bottom voxel, four around the top one
C12_Witness ==
    /\ Supported("water")
    /\ Len(placed[1]) = 3
    /\ {<< 4, 0, 1 >>, << 4, 1, 1 >>, << 3, 0, 1 >>} = Occupied(placed[1])
    /\ Len(Appended) = 8
    /\ query.filler = << "oak_", "leaves" >>

(***************************************************************************)
(* SpecNoFiller: convertToNbt with the filler switched off, in every build *)
(* mode and every support mode, on images of one column drawn either in    *)
(* the westmost column of the map or in column FirstColumn.                *)
(***************************************************************************)
ColumnImage(x, z0, a) ==
    [width |-> MapSize, height |-> MapSize, bg |-> Transparent,
     px |-> [idx \in {(z0 + j - 1) * MapSize + x : j \in 1..Len(ColumnPool[a])} |->
                ColumnPool[a][(idx \div MapSize) - z0 + 1]]]

DisabledFillers == { << "air" >>, << " ", "None", " " >> }

InitNoFiller ==
    /\ imageData \in { ColumnImage(x, z0, a) :
                          x \in {0, FirstColumn}, z0 \in {0, 3}, a \in DOMAIN ColumnPool }
    /\ customColors \in { << >>, << CustomOverGrass, CustomOverWater, CustomOffPalette >> }
    /\ presetBlocks = DefaultPresetBlocks
    /\ fillerBlock \in DisabledFillers
    /\ supportMode \in SupportModes
    /\ buildMode \in BuildModes
    /\ convertUnsupported = FALSE
    /\ imageValid = TRUE
    /\ paletteErrors = << >>
    /\ pending = None
    /\ validation = None
    /\ placed = << >>
    /\ download = None
    /\ query = None

SpecNoFiller == InitNoFiller /\ [][NextConv]_vars

(***************************************************************************)
(* Claims on the disabled filler (SpecNoFiller)                            *)
(***************************************************************************)
\* The voxels a pixel stands for: none for a transparent or unmatched pixel,
\* the water depth for a palette water pixel, one otherwise.
PixelVoxels(img, cc, x, z) ==
    LET p == PixelAt(img, x, z)
        match == LookupGet(KeyOf(p))
    IN  IF p.a = 0 \/ (~IsMatch(match) /\ ~CustomHas(cc, KeyOf(p))) THEN 0
        ELSE IF ~CustomHas(cc, KeyOf(p)) /\ BASE_COLORS_isWater(match.baseIndex)
        THEN getWaterDepth(match.shade, x, z)
        ELSE 1

VoxelsAt(blocks, x, z) == Cardinality({i \in 1..Len(blocks) : blocks[i].x = x /\ blocks[i].z = z})

ColourVoxel(img, opt, b) ==
    /\ b.x \in 0..(MapSize - 1) /\ b.z \in 0..(MapSize - 1)
    /\ PixelVoxels(img, opt.customColors, b.x, b.z) >= 1
    /\ b.blockName =
          resolveBlockName(PixelBlock(opt, LookupGet(KeyOf(PixelAt(img, b.x, b.z))),
                                      CustomGet(opt.customColors, KeyOf(PixelAt(img, b.x, b.z)))))

OnlyColourVoxels(img, opt, blocks) ==
    \A i \in 1..Len(blocks) : ColourVoxel(img, opt, blocks[i])

EveryPixelPlaced(img, opt, blocks) ==
    \A x \in ActiveCols(img), z \in ActiveRows(img) :
        VoxelsAt(blocks, x, z) = PixelVoxels(img, opt.customColors, x, z)

SupportLeftAlone(img, opt, lists) ==
    lists = Placements(img, [opt EXCEPT !.supportMode = "none"])

\* C13: with the filler "air" or "none" (trimmed, any case), for every build
\* mode and every support mode the placement lists hold only colour voxels,
\* one per matched non-liquid pixel and depth-many per liquid pixel, and they
\* are the lists built without any support policy.
C13_DisabledFillerColourOnly ==
    (download # None /\ isFillerDisabled(fillerBlock)) =>
        /\ OnlyColourVoxels(imageData, ConversionOptions, Flat(placed))
        /\ EveryPixelPlaced(imageData, ConversionOptions, Flat(placed))
        /\ SupportLeftAlone(imageData, ConversionOptions, placed)

(***************************************************************************)
(* Claims on normalizeAndMeasure (SpecBlocks)                              *)
(***************************************************************************)
NormalizedTwice == query # None /\ query.op = "normalized twice"
Coordinates(blocks) == [i \in 1..Len(blocks) |-> Pos(blocks[i])]

\* C14: a second run of normalizeAndMeasure on a list it has normalized
\* changes no voxel coordinate, also when the list had a negative Z before the
\* first run.
C14_SecondRunShiftsNothing ==
    NormalizedTwice => Coordinates(query.out.blocks) = Coordinates(query.first.blocks)

\* a list with a voxel in row -1 and lowest Y -1, so that the first run
\* shifted both Y and Z
C14_Witness ==
    /\ NormalizedTwice
    /\ Len(placed[1]) = 3
    /\ \E i \in 1..3 : placed[1][i].z < 0 /\ placed[1][i].y < 0
    /\ \E i \in 1..3 : placed[1][i].y = 64
    /\ Coordinates(query.first.blocks) # Coordinates(placed[1])

YsOf(blocks) == {blocks[i].y : i \in 1..Len(blocks)}
ZsOf(blocks) == {blocks[i].z : i \in 1..Len(blocks)}
\* The rows the list spans, counted from row 0, or from its northmost row
\* when that one lies north of row 0.
RawSpanZ(blocks) ==
    IF Min(ZsOf(blocks)) < 0 THEN Max(ZsOf(blocks)) - Min(ZsOf(blocks)) + 1
    ELSE Max(ZsOf(blocks)) + 1
LeastSizeZ(blocks) == IF Min(ZsOf(blocks)) < 0 THEN MapSize + 1 ELSE MapSize
Larger(a, b) == IF a > b THEN a ELSE b

NormalizedOnce == query # None /\ query.op = "normalize"

Written == query # None /\ query.op = "write"
Identifiers(blocks) == {blocks[i].blockName : i \in 1..Len(blocks)}
FirstAt(blocks, id) == Min({i \in 1..Len(blocks) : blocks[i].blockName = id})

\* C16: the palette written by writeStructureNbt holds each distinct block
\* identifier of the list exactly once, in order of first appearance; its
\* length is the number of distinct identifiers; the state written for a
\* voxel is the index of the entry built from that voxel's own identifier,
\* name and properties.
C16_PaletteOfDistinctIdentifiers ==
    Written =>
        LET nbt == query.out.gzip
        IN  /\ Len(nbt.palette) = Cardinality(Identifiers(placed[1]))
            /\ Len(nbt.blocks) = Len(placed[1])
            /\ \A id \in Identifiers(placed[1]) :
                  Cardinality({n \in 1..Len(nbt.palette) : nbt.palette[n] = parseBlockId(id)}) = 1
            /\ \A i \in 1..Len(placed[1]) :
                  /\ nbt.blocks[i].state \in 0..(Len(nbt.palette) - 1)
                  /\ nbt.palette[nbt.blocks[i].state + 1] = parseBlockId(placed[1][i].blockName)
            /\ \A i, j \in 1..Len(placed[1]) :
                  FirstAt(placed[1], placed[1][i].blockName)
                     < FirstAt(placed[1], placed[1][j].blockName)
                  => nbt.blocks[i].state < nbt.blocks[j].state

\* carpet, waterlogged leaves, carpet again: two entries, the second with the
\* two properties of the leaves
C16_Witness ==
    /\ Written
    /\ Len(placed[1]) = 3
    /\ placed[1][1].blockName = placed[1][3].blockName
    /\ query.out.gzip.palette =
          << [name |-> << "minecraft:", "white_carpet" >>, props |-> << >>],
             [name |-> << "minecraft:", "oak_", "leaves" >>,
              props |-> << [key |-> << "waterlogged" >>, value |-> << "true" >>],
                           [key |-> << "persistent" >>, value |-> << "true" >>] >>] >>
    /\ [i \in 1..3 |-> query.out.gzip.blocks[i].state] = << 0, 1, 0 >>

(***************************************************************************)
(* SpecColumn: convertToNbt in the modes staircase_classic and             *)
(* staircase_valley on images of one column, column FirstColumn, holding   *)
(* every pattern of at most MaxRows pixels of GRASS in its three shades,   *)
(* flat WATER and transparent pixels, from row 0 or row 2 on.              *)
(***************************************************************************)
MaxRows == 3

ColumnColours == {GrassFlat, GrassLight, GrassDark, WaterFlat, Transparent}
ColumnPatterns == UNION {[1..n -> ColumnColours] : n \in 1..MaxRows}

PatternImage(x, z0, pat) ==
    [width |-> MapSize, height |-> MapSize, bg |-> Transparent,
     px |-> [idx \in {(z0 + j - 1) * MapSize + x : j \in 1..Len(pat)} |->
                pat[(idx \div MapSize) - z0 + 1]]]

\* preset, filler and support policy
ColumnSetups ==
    { << DefaultPresetBlocks, << "stone" >>, "none" >>,
      << DefaultPresetBlocks, << "stone" >>, "steps" >>,
      << DefaultPresetBlocks, << "stone" >>, "all" >>,
      << CarpetsPresetBlocks, << "stone" >>, "fragile" >>,
      << DefaultPresetBlocks, << "stone" >>, "water" >>,
      << DefaultPresetBlocks, << "air" >>, "none" >> }

InitColumn ==
    /\ imageData \in { PatternImage(FirstColumn, z0, pat) :
                          z0 \in {0, 2}, pat \in ColumnPatterns }
    /\ \E s \in ColumnSetups :
          presetBlocks = s[1] /\ fillerBlock = s[2] /\ supportMode = s[3]
    /\ buildMode \in {"staircase_classic", "staircase_valley"}
    /\ customColors = << >>
    /\ convertUnsupported = FALSE
    /\ imageValid = TRUE
    /\ paletteErrors = << >>
    /\ pending = None
    /\ validation = None
    /\ placed = << >>
    /\ download = None
    /\ query = None

SpecColumn == InitColumn /\ [][NextConv]_vars

(***************************************************************************)
(* Claims on single columns (SpecColumn)                                   *)
(***************************************************************************)
OpaquePixels(img) == {idx \in DOMAIN img.px : img.px[idx].a # 0}
ShadeAt(img, idx) == LookupGet(KeyOf(img.px[idx])).shade
IsLiquidAt(img, idx) == BASE_COLORS_isWater(LookupGet(KeyOf(img.px[idx])).baseIndex)
AllFlat(img) ==
    /\ OpaquePixels(img) # {}
    /\ \A idx \in OpaquePixels(img) : ShadeAt(img, idx) = 1
Levels(blocks) == {blocks[i].y : i \in 1..Len(blocks)}

ClassicDone == download # None /\ buildMode = "staircase_classic"

\* C17 (as stated): in staircase_classic mode, for an image with one non-empty
\* column whose opaque pixels all have the flat shade, whatever their palette
\* colour and however many transparent gaps, all voxels of the output, filler
\* included, have the same Y.
C17_FlatColumnOneLevel ==
    (ClassicDone /\ AllFlat(imageData)) => Cardinality(Levels(placed[1])) = 1

\* C17 (amended): the same when no pixel of the column is liquid and the
\* support policy is none, steps or water: colour voxels and north fillers
\* all lie on one level.  A flat liquid pixel is a stack of 3 or 5 voxels on
\* as many levels, and the policies all and fragile add fillers one level
\* below the voxels they support.
C17_SolidFlatColumnOneLevel ==
    (/\ ClassicDone /\ AllFlat(imageData)
     /\ \A idx \in OpaquePixels(imageData) : ~IsLiquidAt(imageData, idx)
     /\ supportMode \in {"none", "steps", "water"})
    => Cardinality(Levels(placed[1])) = 1

\* flat, gap, flat with the filler on: two colour voxels and two north fillers
C17_Witness ==
    /\ ClassicDone /\ AllFlat(imageData)
    /\ Cardinality(OpaquePixels(imageData)) = 2
    /\ Cardinality(DOMAIN imageData.px) = 3
    /\ \A idx \in OpaquePixels(imageData) : ~IsLiquidAt(imageData, idx)
    /\ supportMode = "steps"
    /\ Len(placed[1]) = 4
    /\ Levels(placed[1]) = {0}

ValleyDone == download # None /\ buildMode = "staircase_valley"

\* The column holds exactly three opaque pixels, in the rows z, z+1 and z+2,
\* none of them liquid, of shades flat, light and dark from north to south.
FlatLightDarkFrom(img, z) ==
    /\ OpaquePixels(img) = {(z + j) * MapSize + FirstColumn : j \in 0..2}
    /\ \A idx \in OpaquePixels(img) : ~IsLiquidAt(img, idx)
    /\ ShadeAt(img, z * MapSize + FirstColumn) = 1
    /\ ShadeAt(img, (z + 1) * MapSize + FirstColumn) = 2
    /\ ShadeAt(img, (z + 2) * MapSize + FirstColumn) \in {0, 3}

\* Y of the colour voxels of row z: the voxels there that are not filler
ColourLevels(blocks, filler, z) ==
    {blocks[i].y : i \in {j \in 1..Len(blocks) :
                            /\ blocks[j].z = z
                            /\ blocks[j].blockName # resolveBlockName(filler)}}

\* C18: in staircase_valley mode a column of exactly three opaque non-liquid
\* pixels in consecutive rows, of shades flat, light, dark from north to
\* south, ends with the light voxel above the flat one, the dark voxel below
\* the light one, and the dark voxel, which has nothing south of it, at Y = 0.
C18_ValleyFlatLightDark ==
    \A z \in 0..(MapSize - 3) :
        (ValleyDone /\ FlatLightDarkFrom(imageData, z)) =>
            \E yFlat, yLight, yDark \in Levels(placed[1]) :
                /\ ColourLevels(placed[1], fillerBlock, z) = {yFlat}
                /\ ColourLevels(placed[1], fillerBlock, z + 1) = {yLight}
                /\ ColourLevels(placed[1], fillerBlock, z + 2) = {yDark}
                /\ yLight > yFlat /\ yDark < yLight /\ yDark = 0

\* the three pixels in rows 2..4, with the north filler of the flat one
C18_Witness ==
    /\ ValleyDone /\ FlatLightDarkFrom(imageData, 2)
    /\ fillerBlock = << "stone" >> /\ supportMode = "none"
    /\ Len(placed[1]) = 4
    /\ ColourLevels(placed[1], fillerBlock, 2) = {0}
    /\ ColourLevels(placed[1], fillerBlock, 3) = {1}
    /\ ColourLevels(placed[1], fillerBlock, 4) = {0}

(***************************************************************************)
(* SpecNames: convertToNbt and computeMaterialCounts on one flat GRASS     *)
(* pixel in column FirstColumn, GRASS being mapped to each block string of *)
(* BlockStrings: plain names, leaves, property lists as the palette writes *)
(* them, property lists that set persistent themselves, one written with a *)
(* blank before "=" and one with nothing between the brackets.             *)
(***************************************************************************)
BlockStrings ==
    { << "grass_block" >>,
      << "oak_", "leaves" >>,
      << "oak_", "leaves", "[", "waterlogged", "=", "true", "]" >>,
      << "glow_lichen", "[", "south", "=", "true", "]" >>,
      << "oak_", "leaves", "[", "waterlogged", "=", "true", ",", "distance", "=", "1", "]" >>,
      << "oak_", "leaves", "[", "persistent", "=", "true", "]" >>,
      << "oak_", "leaves", "[", "persistent", "=", "false", "]" >>,
      << "glow_lichen", "[", "south", " ", "=", "true", "]" >>,
      << "stone", "[", "]" >> }

NameFillers == { << "stone" >>, << "oak_", "leaves" >>, << "air" >> }

InitNames ==
    /\ imageData \in { SinglePixel(FirstColumn, z, GrassFlat) : z \in {0, 1} }
    /\ presetBlocks \in { [DefaultPresetBlocks EXCEPT ![1] = b] : b \in BlockStrings }
    /\ fillerBlock \in NameFillers
    /\ supportMode \in {"none", "all"}
    /\ buildMode \in {"flat", "staircase_classic", "suppress_pairs", "suppress_pairs_ew",
                      "suppress_dual_layer"}
    /\ customColors = << >>
    /\ convertUnsupported = FALSE
    /\ imageValid = TRUE
    /\ paletteErrors = << >>
    /\ pending = None
    /\ validation = None
    /\ placed = << >>
    /\ download = None
    /\ query = None

Count ==
    /\ query = None
    /\ query' = [counts |-> computeMaterialCounts(imageData, ConversionOptions)]
    /\ UNCHANGED << customColors, convertUnsupported, presetBlocks, fillerBlock,
                    buildMode, supportMode, imageData, imageValid, paletteErrors,
                    pending, validation, placed, download >>

NextNames == Convert \/ Count
SpecNames == InitNames /\ [][NextNames]_vars

(***************************************************************************)
(* Claims on block names (SpecNames)                                       *)
(***************************************************************************)
Named == download # None /\ query # None
GrassBlock == presetBlocks[1]             \* the caller's block string for GRASS
SetsPersistent(b) == Contains(b, "persistent")
\* name, or name[key=value,...] with no blank and at least one property
PaletteForm(b) ==
    /\ ~Contains(b, " ")
    /\ \A i \in 1..(Len(b) - 1) : ~(b[i] = "[" /\ b[i + 1] = "]")

\* namespace prefix, then either no bracket at all or a bracketed end
Qualified(id) ==
    /\ Len(id) >= 2 /\ id[1] = "minecraft:"
    /\ Contains(id, "[") => id[Len(id)] = "]"

\* the palettes of the structures in the file
Structures(file) ==
    IF file.isZip THEN {file.data.zip[n].data.gzip : n \in 1..Len(file.data.zip)}
    ELSE {file.data.gzip}
PersistentTrue == [key |-> << "persistent" >>, value |-> << "true" >>]
LeavesPersist(file) ==
    \A nbt \in Structures(file) : \A n \in 1..Len(nbt.palette) :
        Contains(nbt.palette[n].name, "leaves")
        => \E k \in 1..Len(nbt.palette[n].props) : nbt.palette[n].props[k] = PersistentTrue

CountKeysPlain(counts) ==
    \A key \in DOMAIN counts :
        /\ ~Contains(key, "minecraft:")
        /\ ~\E i \in 1..(Len(key) - 2) :
                key[i] = "persistent" /\ key[i + 1] = "=" /\ key[i + 2] = "true"

\* C19 (as stated): every identifier of a placement list is a namespaced name,
\* optionally followed by a bracketed property list; a name containing
\* "leaves" carries persistent=true in the serialized output; the material
\* counts list the block under the caller's own string, without namespace and
\* without persistent=true, for every mapped block that does not set
\* persistent itself.
C19_CountedUnderOwnString ==
    Named =>
        /\ \A i \in 1..Len(Flat(placed)) : Qualified(Flat(placed)[i].blockName)
        /\ LeavesPersist(download)
        /\ CountKeysPlain(query.counts)
        /\ ~SetsPersistent(GrassBlock) =>
              /\ toDisplayName(resolveBlockName(GrassBlock)) = GrassBlock
              /\ CountOf(query.counts, GrassBlock) >= 1

\* C19 (amended): the same, the material counts listing the block under the
\* caller's own string when that string has the form the palette writes:
\* no blank and no empty bracket pair.  resolveBlockName trims keys and
\* values and drops an empty property list, and the counts list the string
\* so rewritten.
C19_CountedUnderPaletteForm ==
    Named =>
        /\ \A i \in 1..Len(Flat(placed)) : Qualified(Flat(placed)[i].blockName)
        /\ LeavesPersist(download)
        /\ CountKeysPlain(query.counts)
        /\ (~SetsPersistent(GrassBlock) /\ PaletteForm(GrassBlock)) =>
              /\ toDisplayName(resolveBlockName(GrassBlock)) = GrassBlock
              /\ CountOf(query.counts, GrassBlock) >= 1
        /\ CountOf(query.counts, toDisplayName(resolveBlockName(GrassBlock))) >= 1

\* waterlogged leaves with leaves as the filler: two palette entries with
\* persistent=true, counted as oak_leaves[waterlogged=true] and oak_leaves
C19_Witness ==
    /\ Named
    /\ GrassBlock = << "oak_", "leaves", "[", "waterlogged", "=", "true", "]" >>
    /\ fillerBlock = << "oak_", "leaves" >>
    /\ buildMode = "staircase_classic" /\ supportMode = "none"
    /\ Len(placed[1]) = 2
    /\ Len(download.data.gzip.palette) = 2
    /\ DOMAIN query.counts = {GrassBlock, fillerBlock}

(***************************************************************************)
(* createZip, byte by byte.  A buffer is the sequence of its bytes, a name *)
(* the sequence of the bytes TextEncoder gives it; a 32-bit value is a     *)
(* word [hi, lo] as above.                                                 *)
(***************************************************************************)
\* for (j = 0; j < 8; j++) crc = (crc >>> 1) ^ (crc & 1 ? 0xEDB88320 : 0)
RECURSIVE crc32Bits(_, _)
crc32Bits(crc, j) ==
    IF j >= 8 THEN crc
    ELSE IF crc.lo % 2 = 1
    THEN crc32Bits(Xor32(Shr32(crc, 1), Word(60856, 33568)), j + 1)
    ELSE crc32Bits(Shr32(crc, 1), j + 1)

RECURSIVE crc32Bytes(_, _, _)
crc32Bytes(data, i, crc) ==
    IF i > Len(data) THEN crc
    ELSE crc32Bytes(data, i + 1, crc32Bits(Xor32(crc, Word(0, data[i])), 0))

crc32(data) == Xor32(crc32Bytes(data, 1, Word(65535, 65535)), Word(65535, 65535))

writeU16LE(arr, v) == arr \o << v % 256, (v \div 256) % 256 >>
writeU32LE(arr, w) ==             \* w is a word
    arr \o << w.lo % 256, (w.lo \div 256) % 256, w.hi % 256, (w.hi \div 256) % 256 >>

RECURSIVE writeU16s(_, _)
writeU16s(arr, vs) ==             \* writeU16LE for each value of vs in turn
    IF vs = << >> THEN arr ELSE writeU16s(writeU16LE(arr, Head(vs)), Tail(vs))

\* Local file header, name and data of one entry, appended to out
LocalRecord(out, entry, crc) ==
    writeU16s(
        writeU32LE(writeU32LE(writeU32LE(
            writeU16s(writeU32LE(out, ToWord(67324752)), << 20, 0, 0, 0, 0 >>),
            crc), ToWord(Len(entry.data))), ToWord(Len(entry.data))),
        << Len(entry.name), 0 >>)
    \o entry.name \o entry.data

\* mutant: every central record points at the start of the file
CentralRecordMutOffsetZero(out, cd) ==
    writeU32LE(writeU32LE(
        writeU16s(
            writeU32LE(writeU32LE(writeU32LE(
                writeU16s(writeU32LE(out, ToWord(33639248)), << 20, 20, 0, 0, 0, 0 >>),
                cd.crc), ToWord(cd.size)), ToWord(cd.size)),
            << Len(cd.name), 0, 0, 0, 0 >>),
        ToWord(0)), ToWord(0))
    \o cd.name

\* Central directory record of one entry, appended to out
CentralRecord(out, cd) ==
    writeU32LE(writeU32LE(
        writeU16s(
            writeU32LE(writeU32LE(writeU32LE(
                writeU16s(writeU32LE(out, ToWord(33639248)), << 20, 20, 0, 0, 0, 0 >>),
                cd.crc), ToWord(cd.size)), ToWord(cd.size)),
            << Len(cd.name), 0, 0, 0, 0 >>),
        ToWord(0)), ToWord(cd.offset))
    \o cd.name

\* End of central directory, appended to out
EndRecord(out, count, cdSize, cdOffset) ==
    writeU16LE(
        writeU32LE(writeU32LE(
            writeU16s(writeU32LE(out, ToWord(101010256)), << 0, 0, count, count >>),
            ToWord(cdSize)), ToWord(cdOffset)),
        0)

\* The first loop: st is [out, centralDir].
RECURSIVE ZipLocals(_, _, _)
ZipLocals(entries, n, st) ==
    IF n > Len(entries) THEN st
    ELSE ZipLocals(entries, n + 1,
            [out |-> LocalRecord(st.out, entries[n], crc32(entries[n].data)),
             centralDir |-> Append(st.centralDir,
                               [offset |-> Len(st.out), name |-> entries[n].name,
                                crc |-> crc32(entries[n].data),
                                size |-> Len(entries[n].data)])])

RECURSIVE ZipCentrals(_, _, _)
ZipCentrals(centralDir, n, out) ==
    IF n > Len(centralDir) THEN out
    ELSE ZipCentrals(centralDir, n + 1, CentralRecord(out, centralDir[n]))

ZipEnd(centralDir, cdOffset, out) ==
    EndRecord(out, Len(centralDir), Len(out) - cdOffset, cdOffset)

ZipDirectory(st) ==
    ZipEnd(st.centralDir, Len(st.out), ZipCentrals(st.centralDir, 1, st.out))

createZipBytes(entries) ==
    ZipDirectory(ZipLocals(entries, 1, [out |-> << >>, centralDir |-> << >>]))

(***************************************************************************)
(* SpecZip: createZip on lists of at most MaxEntries entries whose names   *)
(* and data are drawn from ZipNames and ZipData.  query holds the entries  *)
(* and, once createZip has run, the bytes it returned.                     *)
(***************************************************************************)
MaxEntries == 2

ZipNames == { << 97 >>, << 109, 97, 112, 45, 111, 100, 100 >> }      \* "a", "map-odd"
ZipData == { << >>, << 97 >>, << 97, 98 >>, << 255, 0 >>, << 10, 0, 0, 3 >> }
ZipEntries == { ZipEntry(name, data) : name \in ZipNames, data \in ZipData }
ZipLists == UNION {[1..n -> ZipEntries] : n \in 0..MaxEntries}

InitZip ==
    /\ query \in { [entries |-> entries, done |-> FALSE, bytes |-> << >>] :
                      entries \in ZipLists }
    /\ customColors = << >>
    /\ convertUnsupported = FALSE
    /\ presetBlocks = None
    /\ fillerBlock = << >>
    /\ buildMode = "flat"
    /\ supportMode = "none"
    /\ imageData = NoImage
    /\ imageValid = FALSE
    /\ paletteErrors = << >>
    /\ pending = None
    /\ validation = None
    /\ placed = << >>
    /\ download = None

Zip ==
    /\ ~query.done
    /\ query' = [query EXCEPT !.done = TRUE, !.bytes = createZipBytes(query.entries)]
    /\ UNCHANGED << customColors, convertUnsupported, presetBlocks, fillerBlock,
                    buildMode, supportMode, imageData, imageValid, paletteErrors,
                    pending, validation, placed, download >>

NextZip == Zip
SpecZip == InitZip /\ [][NextZip]_vars

(***************************************************************************)
(* Claims on createZip (SpecZip).  The file is read back the way the ZIP   *)
(* format lays it out: a local header of 30 bytes, a central record of 46  *)
(* and an end record of 22, with their fields at the offsets of the format.*)
(***************************************************************************)
Bytes(file, off, n) == SubSeq(file, off + 1, off + n)
U16At(file, off) == file[off + 1] + 256 * file[off + 2]
U32At(file, off) == U16At(file, off) + 65536 * U16At(file, off + 2)   \* below 2^31

RECURSIVE LocalOffset(_, _)
LocalOffset(entries, i) ==         \* where the local record of entry i begins
    IF i = 1 THEN 0
    ELSE LocalOffset(entries, i - 1) + 30 + Len(entries[i - 1].name)
         + Len(entries[i - 1].data)

RECURSIVE CentralSize(_, _)
CentralSize(entries, i) ==         \* bytes of the central records before entry i
    IF i = 1 THEN 0
    ELSE CentralSize(entries, i - 1) + 46 + Len(entries[i - 1].name)

LocalOk(file, entries, i) ==
    LET off == LocalOffset(entries, i)
        e == entries[i]
    IN  /\ Bytes(file, off, 4) = << 80, 75, 3, 4 >>
        /\ U16At(file, off + 8) = 0                                   \* method: store
        /\ Bytes(file, off + 14, 4) = writeU32LE(<< >>, crc32(e.data))
        /\ U32At(file, off + 18) = Len(e.data)
        /\ U32At(file, off + 22) = Len(e.data)
        /\ U16At(file, off + 26) = Len(e.name)
        /\ U16At(file, off + 28) = 0
        /\ Bytes(file, off + 30, Len(e.name)) = e.name
        /\ Bytes(file, off + 30 + Len(e.name), Len(e.data)) = e.data

CentralOk(file, entries, i, cdOffset) ==
    LET off == cdOffset + CentralSize(entries, i)
        e == entries[i]
    IN  /\ Bytes(file, off, 4) = << 80, 75, 1, 2 >>
        /\ U16At(file, off + 10) = 0
        /\ Bytes(file, off + 16, 4) = Bytes(file, LocalOffset(entries, i) + 14, 4)
        /\ U32At(file, off + 20) = Len(e.data)
        /\ U32At(file, off + 24) = Len(e.data)
        /\ U16At(file, off + 28) = Len(e.name)
        /\ U32At(file, off + 42) = LocalOffset(entries, i)
        /\ Bytes(file, off + 46, Len(e.name)) = e.name

EndOk(file, n, cdOffset, cdSize) ==
    LET off == cdOffset + cdSize
    IN  /\ Bytes(file, off, 4) = << 80, 75, 5, 6 >>
        /\ U16At(file, off + 8) = n
        /\ U16At(file, off + 10) = n
        /\ U32At(file, off + 12) = cdSize
        /\ U32At(file, off + 16) = cdOffset
        /\ Len(file) = off + 22

\* C20: for a list of n entries createZip emits n local records with method
\* store and the entry's bytes as data, then n central records in the same
\* order, each with the CRC-32 and the size (compressed = uncompressed = data
\* length) of its local record and the byte offset of that record's header,
\* then one end record whose two entry counts are n and whose directory size
\* and directory offset are those of the central directory.
C20_ZipLayout ==
    query.done =>
        LET n == Len(query.entries)
            cdOffset == LocalOffset(query.entries, n + 1)
            cdSize == CentralSize(query.entries, n + 1)
        IN  /\ \A i \in 1..n : LocalOk(query.bytes, query.entries, i)
            /\ \A i \in 1..n : CentralOk(query.bytes, query.entries, i, cdOffset)
            /\ EndOk(query.bytes, n, cdOffset, cdSize)

\* two entries, the second "map-odd" holding "a", whose CRC-32 is e8b7be43:
\* its local header is at byte 33 and the directory, 100 bytes, at byte 71
C20_Witness ==
    /\ query.done
    /\ query.entries = << ZipEntry(<< 97 >>, << 97, 98 >>),
                          ZipEntry(<< 109, 97, 112, 45, 111, 100, 100 >>, << 97 >>) >>
    /\ Bytes(query.bytes, 33 + 14, 4) = << 67, 190, 183, 232 >>
    /\ Bytes(query.bytes, 14, 4) = << 109, 72, 131, 158 >>
    /\ Len(query.bytes) = 71 + 100 + 22

(***************************************************************************)
(* SpecStair: buildStaircaseBlocks on images of one column, column         *)
(* FirstColumn, holding every pattern of at most MaxStairRows pixels of    *)
(* GRASS and WATER in their three shades, the darkest shade of PLANT and   *)
(* transparent pixels, from row 0 or row 1 on, with the filler on and off. *)
(***************************************************************************)
MaxStairRows == 3

StairColours ==
    {GrassFlat, GrassLight, GrassDark, PlantDarkest, WaterFlat, WaterLight, WaterDark,
     Transparent}
StairPatterns == UNION {[1..n -> StairColours] : n \in 1..MaxStairRows}

InitStair ==
    /\ imageData \in { PatternImage(FirstColumn, z0, pat) :
                          z0 \in {0, 1}, pat \in StairPatterns }
    /\ fillerBlock \in { << "stone" >>, << "air" >> }
    /\ presetBlocks = DefaultPresetBlocks
    /\ supportMode = "none"
    /\ buildMode = "staircase_northline"
    /\ customColors = << >>
    /\ convertUnsupported = FALSE
    /\ imageValid = TRUE
    /\ paletteErrors = << >>
    /\ pending = None
    /\ validation = None
    /\ placed = << >>
    /\ download = None
    /\ query = None

Stair ==
    /\ query = None
    /\ query' = [op |-> "staircase",
                 blocks |-> buildStaircaseBlocks(imageData, ConversionOptions)]
    /\ UNCHANGED << customColors, convertUnsupported, presetBlocks, fillerBlock,
                    buildMode, supportMode, imageData, imageValid, paletteErrors,
                    pending, validation, placed, download >>

NextStair == Stair
SpecStair == InitStair /\ [][NextStair]_vars

(***************************************************************************)
(* Claims on the base staircase pass (SpecStair)                           *)
(***************************************************************************)
StairDone == query # None /\ query.op = "staircase"

\* The rows of column x whose pixel is opaque and matches the palette.
MatchedRows(img, x) ==
    {z \in 0..(MapSize - 1) :
        /\ (z * MapSize + x) \in OpaquePixels(img)
        /\ IsMatch(LookupGet(KeyOf(img.px[z * MapSize + x])))}
LiquidRows(img, x) == {z \in MatchedRows(img, x) : IsLiquidAt(img, z * MapSize + x)}

\* The reference height carried into row z of column x, read off the output:
\* the highest Y of the nearest matched row north of z, BASE_Y when there is
\* none.
CarriedHeight(img, blocks, x, z) ==
    LET north == {r \in MatchedRows(img, x) : r < z}
    IN  IF north = {} THEN BASE_Y ELSE Max(RowYs(blocks, x, Max(north)))

\* The voxels of row z of column x, without the north filler of row z + 1,
\* which stands in row z only when the pixel of row z placed nothing.
PixelYs(img, blocks, x, z) ==
    IF z \in MatchedRows(img, x) THEN RowYs(blocks, x, z) ELSE {}

\* C21: in the base staircase pass every matched non-liquid palette pixel
\* with carried north reference height h is placed at h when flat, at h + 1
\* when light and at h - 1 when dark or darkest, except that a dark pixel
\* whose north neighbour is a liquid column of depth > 1 is placed at that
\* liquid's bottom Y; the pixel's Y is the reference carried on (the
\* reference of a later row is read from the Y of the nearest matched row).
C21_StaircaseHeights ==
    StairDone =>
        \A z \in MatchedRows(imageData, FirstColumn) \ LiquidRows(imageData, FirstColumn) :
            LET h == CarriedHeight(imageData, query.blocks, FirstColumn, z)
                shade == ShadeAt(imageData, z * MapSize + FirstColumn)
                northYs == PixelYs(imageData, query.blocks, FirstColumn, z - 1)
                deepNorth == /\ (z - 1) \in LiquidRows(imageData, FirstColumn)
                             /\ Cardinality(northYs) > 1
                ys == PixelYs(imageData, query.blocks, FirstColumn, z)
            IN  IF shade = 1 THEN ys = {h}
                ELSE IF shade = 2 THEN ys = {h + 1}
                ELSE IF deepNorth THEN ys = {Min(northYs)}
                ELSE ys = {h - 1}

\* flat water of depth 5 in row 1, a dark pixel at its bottom, a light pixel
\* one above the dark one
C21_Witness ==
    /\ StairDone
    /\ imageData = PatternImage(FirstColumn, 1, << WaterFlat, GrassDark, GrassLight >>)
    /\ RowYs(query.blocks, FirstColumn, 1) = 64..68
    /\ RowYs(query.blocks, FirstColumn, 2) = {64}
    /\ RowYs(query.blocks, FirstColumn, 3) = {65}

\* Number of voxels of row z of column x
RowCount(blocks, x, z) == Cardinality({i \in ColumnIdx(blocks, x) : blocks[i].z = z})

\* C22: in the base staircase pass a liquid pixel at (x, row) produces a
\* contiguous vertical stack of exactly depth voxels, depth being 1 for the
\* light shade, 5 or 3 for the flat shade and 10 or 7 for the dark and
\* darkest shades on even or odd x + row; the lowest voxel of the stack is at
\* the bottom of the liquid of the previous row of the column when that row
\* is liquid, and at the carried reference height otherwise.
C22_LiquidStacks ==
    StairDone =>
        \A z \in LiquidRows(imageData, FirstColumn) :
            LET shade == ShadeAt(imageData, z * MapSize + FirstColumn)
                even == (FirstColumn + z) % 2 = 0
                depth == IF shade = 2 THEN 1
                         ELSE IF shade = 1 THEN (IF even THEN 5 ELSE 3)
                         ELSE (IF even THEN 10 ELSE 7)
                bottom == IF (z - 1) \in LiquidRows(imageData, FirstColumn)
                          THEN Min(RowYs(query.blocks, FirstColumn, z - 1))
                          ELSE CarriedHeight(imageData, query.blocks, FirstColumn, z)
            IN  /\ RowCount(query.blocks, FirstColumn, z) = depth
                /\ RowYs(query.blocks, FirstColumn, z) = bottom..(bottom + depth - 1)

\* a light pixel, then dark water of depth 7 standing on the light pixel's
\* level, then flat water of depth 5 with the same bottom
C22_Witness ==
    /\ StairDone
    /\ imageData = PatternImage(FirstColumn, 1, << GrassLight, WaterDark, WaterFlat >>)
    /\ RowYs(query.blocks, FirstColumn, 1) = {65}
    /\ RowYs(query.blocks, FirstColumn, 2) = 65..71
    /\ RowYs(query.blocks, FirstColumn, 3) = 65..69
    /\ Len(query.blocks) = 13

(***************************************************************************)
(* Claims on the post-passes of the staircase modes (SpecConv)             *)
(***************************************************************************)
\* The post-pass output itself: the placement list when no support is added
PostPassDone(mode) == download # None /\ buildMode = mode /\ supportMode = "none"

ColumnsOf(blocks) == {blocks[i].x : i \in 1..Len(blocks)}
ColumnVoxels(blocks, x) == SelectSeq(blocks, LAMBDA b : b.x = x)

\* The image with every pixel outside column x made transparent
OnlyColumn(img, x) ==
    [img EXCEPT !.px = [idx \in {i \in DOMAIN img.px : i % MapSize = x} |-> img.px[idx]]]

\* The post-pass of the mode run on column x of the image alone
PostPassAlone(img, opt, x) ==
    applyStaircaseVariant(buildStaircaseBlocks(OnlyColumn(img, x), opt), opt.buildMode,
                          OnlyColumn(img, x), opt)

\* C23: after the staircase_classic post-pass the minimum Y over all voxels
\* (colour, liquid and filler) of every column that has a voxel is exactly
\* 0, and the voxels of a column are those the post-pass gives for the image
\* that holds this column alone.
C23_ClassicColumnFloor ==
    PostPassDone("staircase_classic") =>
        \A x \in ColumnsOf(placed[1]) :
            /\ Min({placed[1][i].y : i \in ColumnIdx(placed[1], x)}) = 0
            /\ ColumnVoxels(placed[1], x)
                  = ColumnVoxels(PostPassAlone(imageData, ConversionOptions, x), x)

\* a light pixel in one column, built at Y 65, and a flat pixel with its
\* north filler in the next, built at Y 64: all three voxels end at Y 0
C23_Witness ==
    /\ PostPassDone("staircase_classic")
    /\ imageData = ConvImage(3, 1, 2)
    /\ fillerBlock = << "stone" >> /\ customColors = << >>
    /\ ColumnsOf(placed[1]) = {FirstColumn, FirstColumn + 1}
    /\ Len(placed[1]) = 3
    /\ Levels(placed[1]) = {0}

(***************************************************************************)
(* SpecCancer: convertToNbt in the mode staircase_cancer, without support, *)
(* on one column, FirstColumn or the next one, filled from row 0 on with   *)
(* 3, TallRows or 2 * TallRows pixels that repeat a pattern of one or two  *)
(* colours.                                                                *)
(***************************************************************************)
TallRows == 50

TallColours == {GrassLight, GrassFlat, GrassDark, WaterLight, Transparent}
TallPatterns == UNION {[1..n -> TallColours] : n \in 1..2}
TallHeights == {3, TallRows, 2 * TallRows}

TallColumn(x, n, pat) ==
    [width |-> MapSize, height |-> MapSize, bg |-> Transparent,
     px |-> [idx \in {z * MapSize + x : z \in 0..(n - 1)} |->
                pat[((idx \div MapSize) % Len(pat)) + 1]]]

InitCancer ==
    /\ imageData \in { TallColumn(x, n, pat) :
                          x \in {FirstColumn, FirstColumn + 1}, n \in TallHeights,
                          pat \in TallPatterns }
    /\ fillerBlock = << "stone" >>
    /\ presetBlocks = DefaultPresetBlocks
    /\ supportMode = "none"
    /\ buildMode = "staircase_cancer"
    /\ customColors = << >>
    /\ convertUnsupported = FALSE
    /\ imageValid = TRUE
    /\ paletteErrors = << >>
    /\ pending = None
    /\ validation = None
    /\ placed = << >>
    /\ download = None
    /\ query = None

SpecCancer == InitCancer /\ [][NextConv]_vars

(***************************************************************************)
(* Claims on the mode staircase_cancer (SpecCancer)                        *)
(***************************************************************************)
TopOfRow(blocks, x, z) == Max(RowYs(blocks, x, z))

\* The shade ordering of the matched non-liquid pixels of column x against
\* the nearest matched pixel north of them
ShadeOrdered(img, blocks, x) ==
    \A z \in MatchedRows(img, x) \ LiquidRows(img, x) :
        LET north == {r \in MatchedRows(img, x) : r < z}
            shade == ShadeAt(img, z * MapSize + x)
        IN  north # {} =>
               LET here == TopOfRow(blocks, x, z)
                   there == TopOfRow(blocks, x, Max(north))
               IN  IF shade = 2 THEN here > there
                   ELSE IF shade = 1 THEN here = there
                   ELSE here < there

\* C24: in staircase_cancer mode the final heights, after the shift to a
\* zero minimum, the down-scaling of a span above 128 and the rounding, keep
\* the shade ordering in every column: a matched non-liquid pixel that has an
\* earlier matched pixel in its column is strictly above it when light, level
\* with it when flat and strictly below it when dark or darkest.
C24_CancerKeepsShadeOrder ==
    PostPassDone("staircase_cancer") =>
        \A x \in ActiveCols(imageData) : ShadeOrdered(imageData, placed[1], x)

(***************************************************************************)
(* SpecValley: the staircase_valley post-pass on the staircase of one      *)
(* column, column FirstColumn, holding every pattern of at most            *)
(* MaxValleyRows pixels of GRASS in its three shades, flat WATER and       *)
(* transparent pixels, from row 0 on.                                      *)
(***************************************************************************)
MaxValleyRows == 5

ValleyPatterns == UNION {[1..n -> ColumnColours] : n \in 1..MaxValleyRows}

InitValley ==
    /\ imageData \in { PatternImage(FirstColumn, 0, pat) : pat \in ValleyPatterns }
    /\ fillerBlock = << "stone" >>
    /\ presetBlocks = DefaultPresetBlocks
    /\ supportMode = "none"
    /\ buildMode = "staircase_valley"
    /\ customColors = << >>
    /\ convertUnsupported = FALSE
    /\ imageValid = TRUE
    /\ paletteErrors = << >>
    /\ pending = None
    /\ validation = None
    /\ placed = << >>
    /\ download = None
    /\ query = None

Valley ==
    /\ query = None
    /\ query' = [op |-> "valley",
                 blocks |-> applyStaircaseVariant(
                                buildStaircaseBlocks(imageData, ConversionOptions),
                                buildMode, imageData, ConversionOptions)]
    /\ UNCHANGED << customColors, convertUnsupported, presetBlocks, fillerBlock,
                    buildMode, supportMode, imageData, imageValid, paletteErrors,
                    pending, validation, placed, download >>

NextValley == Valley
SpecValley == InitValley /\ [][NextValley]_vars

(***************************************************************************)
(* Claims on the mode staircase_valley (SpecValley)                        *)
(***************************************************************************)
ValleyPassed == query # None /\ query.op = "valley"

\* C25: after the staircase_valley post-pass no liquid voxel of a column has
\* a negative Y: the bottom of every liquid sub-column, those of depth > 1
\* included, is at Y >= 0, also in the segments to which the corrections for
\* a dark pixel south of the segment (liquid alone, or liquid followed by
\* solid pixels) apply.
C25_ValleyLiquidFloor ==
    ValleyPassed =>
        \A z \in LiquidRows(imageData, FirstColumn) :
            \A y \in RowYs(query.blocks, FirstColumn, z) : y >= 0

\* flat water of depth 3, a flat pixel and three dark pixels: the dark pixels
\* end at 2, 1 and 0, the segment of the water and the flat pixel would have
\* its top at 3 and the water's bottom at 1, and the correction for the dark
\* pixel south of it puts the water's bottom on the dark pixel's level, 2
C25_Witness ==
    /\ ValleyPassed
    /\ imageData = PatternImage(FirstColumn, 0,
                      << WaterFlat, GrassFlat, GrassDark, GrassDark, GrassDark >>)
    /\ RowYs(query.blocks, FirstColumn, 0) = 2..4
    /\ RowYs(query.blocks, FirstColumn, 1) = {2, 4}
    /\ RowYs(query.blocks, FirstColumn, 2) = {2}
    /\ RowYs(query.blocks, FirstColumn, 3) = {1}
    /\ RowYs(query.blocks, FirstColumn, 4) = {0}

SolidRows(img, x) == MatchedRows(img, x) \ LiquidRows(img, x)

\* C29: after the staircase_valley post-pass the shade of every matched
\* non-liquid palette pixel whose north neighbour row in the same column is a
\* matched non-liquid pixel is still encoded by height: a light pixel's Y is
\* strictly above the north neighbour's Y, a flat pixel's Y equals it and a
\* dark or darkest pixel's Y is strictly below it, in whatever order the
\* segments were processed.
C29_ValleyKeepsShades ==
    ValleyPassed =>
        \A z \in SolidRows(imageData, FirstColumn) :
            (z - 1) \in SolidRows(imageData, FirstColumn) =>
                \E here, there \in Levels(query.blocks) :
                    /\ ColourLevels(query.blocks, fillerBlock, z) = {here}
                    /\ ColourLevels(query.blocks, fillerBlock, z - 1) = {there}
                    /\ LET shade == ShadeAt(imageData, z * MapSize + FirstColumn)
                       IN  IF shade = 2 THEN here > there
                           ELSE IF shade = 1 THEN here = there
                           ELSE here < there

\* light, dark, flat, light, dark: the segments are processed in the order
\* rows 1-2, row 4, row 0, row 3 and end at the levels 1, 0, 0, 1, 0
C29_Witness ==
    /\ ValleyPassed
    /\ imageData = PatternImage(FirstColumn, 0,
                      << GrassLight, GrassDark, GrassFlat, GrassLight, GrassDark >>)
    /\ [z \in 0..4 |-> ColourLevels(query.blocks, fillerBlock, z)]
          = [z \in 0..4 |-> {<< 1, 0, 0, 1, 0 >>[z + 1]}]

(***************************************************************************)
(* SpecEW: buildSuppressPairsEWBlocksByStep on the images of SpecConv (one *)
(* or two neighbouring columns), with both presets and every pair of       *)
(* filler and support policy of ConvSupport.                               *)
(***************************************************************************)
InitEW ==
    /\ imageData \in ConvImages
    /\ presetBlocks \in { DefaultPresetBlocks, CarpetsPresetBlocks }
    /\ \E fs \in ConvSupport : fillerBlock = fs[1] /\ supportMode = fs[2]
    /\ buildMode = "suppress_pairs_ew"
    /\ customColors = << >>
    /\ convertUnsupported = FALSE
    /\ imageValid = TRUE
    /\ paletteErrors = << >>
    /\ pending = None
    /\ validation = None
    /\ placed = << >>
    /\ download = None
    /\ query = None

StepsEW ==
    /\ query = None
    /\ query' = [op |-> "steps",
                 steps |-> buildSuppressPairsEWBlocksByStep(imageData, ConversionOptions)]
    /\ UNCHANGED << customColors, convertUnsupported, presetBlocks, fillerBlock,
                    buildMode, supportMode, imageData, imageValid, paletteErrors,
                    pending, validation, placed, download >>

NextEW == StepsEW
SpecEW == InitEW /\ [][NextEW]_vars

(***************************************************************************)
(* Claims on the steps of suppress_pairs_ew (SpecEW)                       *)
(***************************************************************************)
StepsDone == query # None /\ query.op = "steps"
UsedSteps(steps) == {t \in 1..Len(steps) : steps[t] # << >>}

\* A voxel of the filler block with a voxel of the same step right above it
IsUnderSupport(stepBlocks, b, filler) ==
    /\ b.blockName = resolveBlockName(filler)
    /\ \E i \in 1..Len(stepBlocks) :
          Pos(stepBlocks[i]) = << b.x, b.y + 1, b.z >>

DistinctPositions(blocks) ==
    \A i, j \in 1..Len(blocks) : Pos(blocks[i]) = Pos(blocks[j]) => i = j

\* C27: in every build mode and support mode no placement list handed to
\* writeStructureNbt holds two voxels with the same (x, y, z): no filler
\* placed one row north of a pixel, no under-block support and no layer-2
\* filler coincides with another colour, liquid or filler voxel.
C27_NoVoxelTwice ==
    Converted => \A n \in 1..Len(placed) : DistinctPositions(placed[n])

(***************************************************************************)
(* SpecEdge: convertToNbt in every build mode and support mode, filler     *)
(* "stone", on images of one column of one or two pixels that stands at    *)
(* the west edge, in column FirstColumn or at the east edge of the map and *)
(* starts in the first or ends in the last row.                            *)
(***************************************************************************)
EdgePatterns ==
    { << WaterFlat >>, << WaterLight >>, << GrassFlat >>, << GrassDark, WaterDark >>,
      << WaterFlat, GrassDark >>, << GrassLight, GrassFlat >>,
      << WaterDark, WaterLight >>, << GrassDark, GrassLight >> }

InitEdge ==
    /\ imageData \in { PatternImage(x, z0, pat) :
                          x \in {0, FirstColumn, MapSize - 1}, z0 \in {0, MapSize - 2},
                          pat \in EdgePatterns }
    /\ fillerBlock = << "stone" >>
    /\ presetBlocks = DefaultPresetBlocks
    /\ supportMode \in SupportModes
    /\ buildMode \in BuildModes
    /\ customColors = << >>
    /\ convertUnsupported = FALSE
    /\ imageValid = TRUE
    /\ paletteErrors = << >>
    /\ pending = None
    /\ validation = None
    /\ placed = << >>
    /\ download = None
    /\ query = None

SpecEdge == InitEdge /\ [][NextConv]_vars

(***************************************************************************)
(* Claims on the size box (SpecEdge)                                       *)
(***************************************************************************)
InsideBox(nbt) ==
    \A i \in 1..Len(nbt.blocks) :
        \A k \in 1..3 : 0 <= nbt.blocks[i].pos[k] /\ nbt.blocks[i].pos[k] < nbt.size[k]

\* C28: for every image, build mode and support mode every voxel written by
\* writeStructureNbt lies inside the declared size box, 0 <= x < sizeX (128),
\* 0 <= y < sizeY and 0 <= z < sizeZ, the filler voxels included that the
\* water support policy adds west of column 0, east of column 127 and north
\* or south of the grid.
C28_VoxelsInsideSizeBox ==
    Converted => \A nbt \in Structures(download) : InsideBox(nbt)

(***************************************************************************)
(* The page: the image behind an enabled Generate button                   *)
(***************************************************************************)
\* C30: whenever imageValid is true, the loaded image validates against the
\* current customColors list: no page action leaves generation enabled for an
\* image with an opaque pixel that is neither a palette colour nor a current
\* custom colour.
C30_ValidImageStaysValid ==
    imageValid => validatePng(imageData, customColors).valid

====
